---- MODULE Spec2Model ----
(***************************************************************************)
(* Token lifecycle of the Outlook MCP server: the legacy single-account    *)
(* token store (auth/token-manager.js), the multi-account registry         *)
(* (AccountManager) and the authentication gate (ensureAuthenticated).     *)
(*                                                                         *)
(* Time is counted in units of 150 seconds, so that the 5-minute refresh   *)
(* window is 2 units and the default token lifetime of 3600 s is 24 units. *)
(* Node runs one callback at a time: a call runs atomically up to the      *)
(* point where it awaits a refresh exchange, and the completion of an      *)
(* exchange runs the response handler together with the continuation of    *)
(* the call that awaits it.                                                *)
(***************************************************************************)
EXTENDS Integers, Sequences, FiniteSets, TLC

\* ---------------------------------------------------------------- bounds
MaxTime == 3
MaxTok == 2
NumCallers == 1
MaxConcurrent == 2
MaxAccounts == 2
MaxExchanges == 2
MaxSessions == 2

\* ------------------------------------------------------ program constants
FiveMinutes == 2
DefaultExpiresIn == 24

VARIABLES
    now,            \* Date.now()
    cachedTokens,   \* module variable of token-manager.js
    outlookTokens,  \* global.outlookTokens, the process-wide slot
    tokenFile,      \* content of config.AUTH_CONFIG.tokenStorePath
    accounts,       \* AccountManager.accounts, a Map in insertion order
    indexFile,      \* accounts.json
    tokenFiles,     \* <accountId>.tokens.json
    exchanges,      \* refresh requests sent to the identity provider, unanswered
    calls,          \* the invocations in progress, one per caller
    nextTok,        \* next token string the provider (or a login) hands out
    nextId,         \* next value of randomUUID()
    transports,     \* index.js: transports, the map session id -> transport
    created,        \* the StreamableHTTPServerTransport objects made so far
    nextSession,    \* next value of the sessionIdGenerator
    lastRequest     \* the last request to /mcp and what became of it

authVars == <<now, cachedTokens, outlookTokens, tokenFile, accounts, indexFile,
              tokenFiles, exchanges, calls, nextTok, nextId>>
remoteVars == <<transports, created, nextSession, lastRequest>>
vars == <<now, cachedTokens, outlookTokens, tokenFile, accounts, indexFile,
          tokenFiles, exchanges, calls, nextTok, nextId,
          transports, created, nextSession, lastRequest>>
legacyVars == <<cachedTokens, outlookTokens, tokenFile>>
registryVars == <<accounts, indexFile, tokenFiles>>

\* ------------------------------------------------------------- JS values
Null == [null |-> TRUE]
Corrupt == [corrupt |-> TRUE]
Unreadable == [unreadable |-> TRUE]
Promise == [promise |-> TRUE]
NoAccount == 0
Detached == 0

Callers == 1..NumCallers
AccountIds == 1..MaxAccounts
\* the invocations that can be in progress at once where concurrency is studied
Invocations == 1..MaxConcurrent

Has(t, f) == f \in DOMAIN t

\* tokens.expires_at || 0
ExpiresAtOr0(t) == IF Has(t, "expires_at") THEN t.expires_at ELSE 0

\* A token record as a login hands it out; the refresh token, when present,
\* is named after the access token it was issued with.
TokenRecord(a, e, withRefresh) ==
    IF withRefresh
    THEN [access_token |-> a, refresh_token |-> a, expires_at |-> e]
    ELSE [access_token |-> a, expires_at |-> e]

\* The token response of the authorization-code exchange, stored as received.
RawResponse(a, withRefresh) ==
    IF withRefresh
    THEN [access_token |-> a, refresh_token |-> a]
    ELSE [access_token |-> a]

SeqRemove(s, i) == SubSeq(s, 1, i - 1) \o SubSeq(s, i + 1, Len(s))

\* ------------------------------------------------------- results of calls
RetToken(rec) == [kind |-> "token", token |-> rec.access_token, src |-> rec, at |-> now]
RetNull == [kind |-> "null", at |-> now]
RetUndefined == [kind |-> "undefined", at |-> now]
RetRecord(rec) == [kind |-> "record", rec |-> rec, at |-> now]
RetPromise == [kind |-> "promise", at |-> now]
RetThrow(msg) == [kind |-> "throw", message |-> msg, at |-> now]
RetBool(b) == [kind |-> "bool", value |-> b, at |-> now]
RetId(id) == [kind |-> "id", id |-> id, at |-> now]
RetAccount(account) == [kind |-> "account", account |-> account, at |-> now]
RetList(l) == [kind |-> "list", list |-> l, at |-> now]

\* the values an && chain can yield besides a string
JsNull == [kind |-> "null"]
JsUndefined == [kind |-> "undefined"]
JsBool(b) == [kind |-> "bool", value |-> b]
JsString(x) == [kind |-> "string", value |-> x]

\* rec.access_token as a JS value
AccessTokenOf(rec) == IF Has(rec, "access_token") THEN RetToken(rec) ELSE RetUndefined

Idle == [pc |-> "idle"]
Pending == [pending |-> TRUE]

\* What one synchronous stretch of a call does: the new module cache, the
\* refresh requests it sends, and its result (Pending while it awaits one).
Effect(cache, ex, ret, stage) == [cache |-> cache, ex |-> ex, ret |-> ret, stage |-> stage]

LegacyExchange(rt, waiter) ==
    [kind |-> "legacy", account |-> NoAccount, refresh_token |-> rt, waiter |-> waiter]
AccountExchange(id, rt, waiter) ==
    [kind |-> "account", account |-> id, refresh_token |-> rt, waiter |-> waiter]

\* ---------------------------------------------------- legacy Token Store
\* Variant: the file is consulted before the process-wide slot.
LoadTokenCache_FileFirst ==
    IF tokenFile # Null /\ tokenFile # Corrupt /\ Has(tokenFile, "access_token")
       /\ now <= ExpiresAtOr0(tokenFile)
    THEN Effect(tokenFile, <<>>, tokenFile, "file")
    ELSE IF outlookTokens # Null
    THEN Effect(outlookTokens, <<>>, outlookTokens, "slot")
    ELSE Effect(cachedTokens, <<>>, Null, "nofile")

\* loadTokenCache(): ret is the value returned (a record, Null, or the
\* Promise of refreshAccessToken), cache the new cachedTokens, ex the
\* refresh request it has sent.
LoadTokenCache ==
    IF outlookTokens # Null
    THEN Effect(outlookTokens, <<>>, outlookTokens, "slot")
    ELSE IF tokenFile = Null THEN Effect(cachedTokens, <<>>, Null, "nofile")
    ELSE IF tokenFile = Unreadable THEN Effect(cachedTokens, <<>>, Null, "read")
    ELSE IF tokenFile = Corrupt THEN Effect(cachedTokens, <<>>, Null, "parse")
    ELSE IF ~Has(tokenFile, "access_token") THEN Effect(cachedTokens, <<>>, Null, "noaccess")
    ELSE IF now > ExpiresAtOr0(tokenFile)
         THEN IF Has(tokenFile, "refresh_token")
              THEN Effect(cachedTokens,
                          <<LegacyExchange(tokenFile.refresh_token, Detached)>>,
                          Promise, "expired")
              ELSE Effect(cachedTokens, <<>>, Null, "expired")
    ELSE Effect(tokenFile, <<>>, tokenFile, "file")

\* loadTokenCache() called on its own
LoadEffect ==
    LET l == LoadTokenCache
    IN  Effect(l.cache, l.ex,
               IF l.ret = Null THEN RetNull
               ELSE IF l.ret = Promise THEN RetPromise
               ELSE RetRecord(l.ret),
               l.stage)

\* Variant: waits for the refresh it has started.
GetAccessTokenSync_Awaits ==
    IF cachedTokens # Null /\ Has(cachedTokens, "access_token")
    THEN IF now + FiveMinutes > ExpiresAtOr0(cachedTokens)
            /\ Has(cachedTokens, "refresh_token")
         THEN Effect(cachedTokens,
                     <<LegacyExchange(cachedTokens.refresh_token, Detached)>>,
                     Pending, "cache")
         ELSE Effect(cachedTokens, <<>>, RetToken(cachedTokens), "cache")
    ELSE LET l == LoadTokenCache
         IN  Effect(l.cache, l.ex,
                    IF l.ret = Null THEN RetNull ELSE AccessTokenOf(l.ret),
                    l.stage)

\* getAccessToken(): the synchronous accessor
GetAccessTokenSync ==
    IF cachedTokens # Null /\ Has(cachedTokens, "access_token")
    THEN Effect(cachedTokens,
                IF now + FiveMinutes > ExpiresAtOr0(cachedTokens)
                   /\ Has(cachedTokens, "refresh_token")
                THEN <<LegacyExchange(cachedTokens.refresh_token, Detached)>>
                ELSE <<>>,
                RetToken(cachedTokens), "cache")
    ELSE LET l == LoadTokenCache
         IN  Effect(l.cache, l.ex,
                    IF l.ret = Null THEN RetNull ELSE AccessTokenOf(l.ret),
                    l.stage)

\* Variant: refreshes whenever a refresh token is there, whatever the expiry.
GetAccessTokenAsync_AlwaysRefresh(c) ==
    LET l == LoadTokenCache
        tokens == l.ret
    IN  IF tokens = Null THEN Effect(l.cache, l.ex, RetNull, l.stage)
        ELSE IF Has(tokens, "refresh_token")
             THEN Effect(l.cache,
                         l.ex \o <<LegacyExchange(tokens.refresh_token, c)>>,
                         Pending, l.stage)
        ELSE Effect(l.cache, l.ex, AccessTokenOf(tokens), l.stage)

\* getAccessTokenAsync() of caller c, up to its await
GetAccessTokenAsync(c) ==
    LET l == LoadTokenCache
        tokens == l.ret
    IN  IF tokens = Null THEN Effect(l.cache, l.ex, RetNull, l.stage)
        ELSE IF now + FiveMinutes > ExpiresAtOr0(tokens) /\ Has(tokens, "refresh_token")
             THEN Effect(l.cache,
                         l.ex \o <<LegacyExchange(tokens.refresh_token, c)>>,
                         Pending, l.stage)
        ELSE Effect(l.cache, l.ex, AccessTokenOf(tokens), l.stage)

\* response.expires_in || 3600
ExpiresIn(response) ==
    IF Has(response, "expires_in") /\ response.expires_in # 0
    THEN response.expires_in
    ELSE DefaultExpiresIn

\* { ...response, expires_at }; the fields of the response that nothing
\* reads afterwards (expires_in, scope, token_type) are not carried.
NewTokens(response) ==
    [f \in (DOMAIN response \ {"expires_in"}) \cup {"expires_at"} |->
        IF f = "expires_at" THEN now + ExpiresIn(response) ELSE response[f]]

\* statusCode === 200 && response.access_token, after JSON.parse
RefreshSucceeds(outcome) ==
    /\ outcome.kind = "response"
    /\ outcome.body # Corrupt
    /\ outcome.status = 200
    /\ Has(outcome.body, "access_token")

\* --------------------------------------------------- Account Registry
\* this.accounts is a Map: an entry is the key together with the account
\* object stored under it; AccountAt is the position of the entry of a key,
\* 0 when the map has none
AccountAt(accts, id) ==
    IF \E i \in 1..Len(accts) : accts[i].key = id
    THEN CHOOSE i \in 1..Len(accts) : accts[i].key = id
    ELSE 0

HasAccount(id) == AccountAt(accounts, id) # 0
GetAccount(id) == accounts[AccountAt(accounts, id)]

\* Variant: the whole account object goes into the index.
AccountInfo_WithTokens(account) == account

\* const { tokens, ...accountInfo } = account
AccountInfo(account) ==
    [key |-> account.key, id |-> account.id,
     userPrincipalName |-> account.userPrincipalName,
     displayName |-> account.displayName,
     createdAt |-> account.createdAt, lastUsed |-> account.lastUsed]

\* saveAccountTokens(accountId, tokens)
SaveAccountTokens(files, id, tokens) == [files EXCEPT ![id] = tokens]

\* Variant: only the index is written.
SaveAccounts_IndexOnly(accts, files) ==
    [tokenFiles |-> files,
     indexFile |-> [i \in 1..Len(accts) |-> AccountInfo(accts[i])]]

\* saveAccounts(): the token file of every account that has tokens, then
\* the index without tokens
SaveAccounts(accts, files) ==
    [tokenFiles |->
        [id \in AccountIds |->
            IF AccountAt(accts, id) # 0 /\ accts[AccountAt(accts, id)].tokens # Null
            THEN accts[AccountAt(accts, id)].tokens
            ELSE files[id]],
     indexFile |-> [i \in 1..Len(accts) |-> AccountInfo(accts[i])]]

\* An index document is the sequence of its entries, empty when there is no
\* index file; one that cannot be read or parsed has a single marker in
\* the place of entries.
UnreadableIndex == <<Unreadable>>
CorruptIndex == <<Corrupt>>

\* loadAccountTokens(accountId) at time t: the parsed document, null when
\* the file is absent, cannot be read or parsed, or carries an expires_at
\* that is truthy and before t
LoadAccountTokens(files, id, t) ==
    LET tokens == files[id]
    IN  IF tokens = Null THEN Null
        ELSE IF tokens = Unreadable \/ tokens = Corrupt THEN Null
        ELSE IF Has(tokens, "expires_at") /\ tokens.expires_at # 0
                /\ t > tokens.expires_at
             THEN Null
        ELSE tokens

\* Variant: a token document that cannot be read or parsed makes the whole
\* load fail.
LoadAccounts_AllOrNothing(index, files, t) ==
    IF index = UnreadableIndex \/ index = CorruptIndex THEN <<>>
    ELSE IF \E i \in 1..Len(index) :
                files[index[i].key] = Unreadable \/ files[index[i].key] = Corrupt
         THEN <<>>
    ELSE [i \in 1..Len(index) |->
            [key |-> index[i].key, id |-> index[i].id,
             userPrincipalName |-> index[i].userPrincipalName,
             displayName |-> index[i].displayName,
             createdAt |-> index[i].createdAt, lastUsed |-> index[i].lastUsed,
             tokens |-> LoadAccountTokens(files, index[i].key, t)]]

\* loadAccounts() at time t: one map entry per entry of the index, with
\* the tokens loadAccountTokens finds; an empty map when the index is
\* absent, cannot be read or cannot be parsed
LoadAccounts(index, files, t) ==
    IF index = UnreadableIndex \/ index = CorruptIndex THEN <<>>
    ELSE [i \in 1..Len(index) |->
            [key |-> index[i].key, id |-> index[i].id,
             userPrincipalName |-> index[i].userPrincipalName,
             displayName |-> index[i].displayName,
             createdAt |-> index[i].createdAt, lastUsed |-> index[i].lastUsed,
             tokens |-> LoadAccountTokens(files, index[i].key, t)]]

\* Variant: the time of last use of every account is refreshed.
UpdateAccountTokens_TouchesAll(id, tokens) ==
    LET i == AccountAt(accounts, id)
        accts == [k \in 1..Len(accounts) |->
                    IF k = i THEN [accounts[k] EXCEPT !.tokens = tokens, !.lastUsed = now]
                    ELSE [accounts[k] EXCEPT !.lastUsed = now]]
        saved == SaveAccounts(accts, SaveAccountTokens(tokenFiles, id, tokens))
    IN  IF i = 0
        THEN [ret |-> FALSE, accounts |-> accounts, tokenFiles |-> tokenFiles,
              indexFile |-> indexFile]
        ELSE [ret |-> TRUE, accounts |-> accts, tokenFiles |-> saved.tokenFiles,
              indexFile |-> saved.indexFile]

\* Variant: the token file is written before the map is asked for the id.
UpdateAccountTokens_Upserts(id, tokens) ==
    LET i == AccountAt(accounts, id)
        accts == [accounts EXCEPT ![i].tokens = tokens, ![i].lastUsed = now]
        saved == SaveAccounts(accts, SaveAccountTokens(tokenFiles, id, tokens))
    IN  IF i = 0
        THEN [ret |-> FALSE, accounts |-> accounts,
              tokenFiles |-> SaveAccountTokens(tokenFiles, id, tokens),
              indexFile |-> indexFile]
        ELSE [ret |-> TRUE, accounts |-> accts, tokenFiles |-> saved.tokenFiles,
              indexFile |-> saved.indexFile]

\* updateAccountTokens(accountId, tokens): ret is the value returned
UpdateAccountTokens(id, tokens) ==
    LET i == AccountAt(accounts, id)
        accts == [accounts EXCEPT ![i].tokens = tokens, ![i].lastUsed = now]
        saved == SaveAccounts(accts, SaveAccountTokens(tokenFiles, id, tokens))
    IN  IF i = 0
        THEN [ret |-> FALSE, accounts |-> accounts, tokenFiles |-> tokenFiles,
              indexFile |-> indexFile]
        ELSE [ret |-> TRUE, accounts |-> accts, tokenFiles |-> saved.tokenFiles,
              indexFile |-> saved.indexFile]

\* Variant: the token file is unlinked and the index rewritten whatever the id.
RemoveAccountFrom_Unchecked(accts, files, index, id) ==
    LET i == AccountAt(accts, id)
        left == IF i = 0 THEN accts ELSE SeqRemove(accts, i)
        saved == SaveAccounts(left, [files EXCEPT ![id] = Null])
    IN  [ret |-> TRUE, accounts |-> left, tokenFiles |-> saved.tokenFiles,
         indexFile |-> saved.indexFile]

\* Variant: the token file of the removed account stays on disk.
RemoveAccountFrom_KeepsTokenFile(accts, files, index, id) ==
    LET i == AccountAt(accts, id)
        left == SeqRemove(accts, i)
        saved == SaveAccounts(left, files)
    IN  IF i = 0
        THEN [ret |-> FALSE, accounts |-> accts, tokenFiles |-> files, indexFile |-> index]
        ELSE [ret |-> TRUE, accounts |-> left, tokenFiles |-> saved.tokenFiles,
              indexFile |-> saved.indexFile]

\* removeAccount(accountId) on a registry with map accts, token files files
\* and index file index: ret is the value returned
RemoveAccountFrom(accts, files, index, id) ==
    LET i == AccountAt(accts, id)
        left == SeqRemove(accts, i)
        saved == SaveAccounts(left, [files EXCEPT ![id] = Null])
    IN  IF i = 0
        THEN [ret |-> FALSE, accounts |-> accts, tokenFiles |-> files, indexFile |-> index]
        ELSE [ret |-> TRUE, accounts |-> left, tokenFiles |-> saved.tokenFiles,
              indexFile |-> saved.indexFile]

\* account.tokens && account.tokens.access_token &&
\* account.tokens.expires_at > Date.now(), as the value the chain yields at
\* time t
ValidityFlag(account, t) ==
    IF account.tokens = Null THEN JsNull
    ELSE IF ~Has(account.tokens, "access_token") THEN JsUndefined
    ELSE JsBool(Has(account.tokens, "expires_at") /\ account.tokens.expires_at > t)

\* Variant: the chain stops at the access token.
GetAllAccounts_TokenAsFlag(accts, t) ==
    [i \in 1..Len(accts) |->
        [id |-> accts[i].id, userPrincipalName |-> accts[i].userPrincipalName,
         displayName |-> accts[i].displayName, createdAt |-> accts[i].createdAt,
         lastUsed |-> accts[i].lastUsed,
         hasValidTokens |->
            IF accts[i].tokens = Null THEN JsNull
            ELSE IF ~Has(accts[i].tokens, "access_token") THEN JsUndefined
            ELSE JsString(accts[i].tokens.access_token)]]

\* getAllAccounts() on the map accts at time t
GetAllAccounts(accts, t) ==
    [i \in 1..Len(accts) |->
        [id |-> accts[i].id, userPrincipalName |-> accts[i].userPrincipalName,
         displayName |-> accts[i].displayName, createdAt |-> accts[i].createdAt,
         lastUsed |-> accts[i].lastUsed,
         hasValidTokens |-> ValidityFlag(accts[i], t)]]

\* Variant: an expired token that can be renewed counts as valid.
HasValidTokens_OrRenewable(account) ==
    /\ account.tokens # Null
    /\ Has(account.tokens, "access_token")
    /\ Has(account.tokens, "expires_at")
    /\ \/ account.tokens.expires_at > now
       \/ Has(account.tokens, "refresh_token")

\* account.tokens && account.tokens.access_token && expires_at > Date.now()
HasValidTokens(account) ==
    /\ account.tokens # Null
    /\ Has(account.tokens, "access_token")
    /\ Has(account.tokens, "expires_at")
    /\ account.tokens.expires_at > now

\* Variant: the first account that has tokens, whatever their expiry.
GetDefaultAccount_AnyTokens ==
    IF \E i \in 1..Len(accounts) : accounts[i].tokens # Null
    THEN CHOOSE i \in 1..Len(accounts) :
            /\ accounts[i].tokens # Null
            /\ \A j \in 1..(i - 1) : accounts[j].tokens = Null
    ELSE 0

\* getDefaultAccount(): the position of the first account with valid
\* tokens, 0 for null
GetDefaultAccount ==
    IF \E i \in 1..Len(accounts) : HasValidTokens(accounts[i])
    THEN CHOOSE i \in 1..Len(accounts) :
            /\ HasValidTokens(accounts[i])
            /\ \A j \in 1..(i - 1) : ~HasValidTokens(accounts[j])
    ELSE 0

\* Variant: refreshes only a token that has already expired.
AMGetAccessToken_ExpiredOnly(id, c) ==
    IF ~HasAccount(id) \/ GetAccount(id).tokens = Null
    THEN Effect(cachedTokens, <<>>, RetNull, "registry")
    ELSE LET tokens == GetAccount(id).tokens
         IN  IF now > ExpiresAtOr0(tokens) /\ Has(tokens, "refresh_token")
             THEN Effect(cachedTokens,
                         <<AccountExchange(id, tokens.refresh_token, c)>>,
                         Pending, "registry")
             ELSE Effect(cachedTokens, <<>>, AccessTokenOf(tokens), "registry")

\* Variant: an expiring token is refreshed whether or not the record has a
\* refresh token.
AMGetAccessToken_AlwaysRefreshes(id, c) ==
    IF ~HasAccount(id) \/ GetAccount(id).tokens = Null
    THEN Effect(cachedTokens, <<>>, RetNull, "registry")
    ELSE LET tokens == GetAccount(id).tokens
         IN  IF now + FiveMinutes > ExpiresAtOr0(tokens)
             THEN Effect(cachedTokens,
                         <<AccountExchange(id,
                               IF Has(tokens, "refresh_token") THEN tokens.refresh_token
                               ELSE tokens.access_token, c)>>,
                         Pending, "registry")
             ELSE Effect(cachedTokens, <<>>, AccessTokenOf(tokens), "registry")

\* Variant: one refresh per account at a time; while one is outstanding
\* the stored token is handed out.
AMGetAccessToken_Serialized(id, c) ==
    IF ~HasAccount(id) \/ GetAccount(id).tokens = Null
    THEN Effect(cachedTokens, <<>>, RetNull, "registry")
    ELSE LET tokens == GetAccount(id).tokens
         IN  IF /\ now + FiveMinutes > ExpiresAtOr0(tokens)
                /\ Has(tokens, "refresh_token")
                /\ ~\E k \in 1..Len(exchanges) :
                        exchanges[k].kind = "account" /\ exchanges[k].account = id
             THEN Effect(cachedTokens,
                         <<AccountExchange(id, tokens.refresh_token, c)>>,
                         Pending, "registry")
             ELSE Effect(cachedTokens, <<>>, AccessTokenOf(tokens), "registry")

\* AccountManager.getAccessToken(accountId) of caller c, up to its await
AMGetAccessToken(id, c) ==
    IF ~HasAccount(id) \/ GetAccount(id).tokens = Null
    THEN Effect(cachedTokens, <<>>, RetNull, "registry")
    ELSE LET tokens == GetAccount(id).tokens
         IN  IF now + FiveMinutes > ExpiresAtOr0(tokens) /\ Has(tokens, "refresh_token")
             THEN Effect(cachedTokens,
                         <<AccountExchange(id, tokens.refresh_token, c)>>,
                         Pending, "registry")
             ELSE Effect(cachedTokens, <<>>, AccessTokenOf(tokens), "registry")

\* ------------------------------------------------ Authentication Gate
MsgRequired == "Authentication required"
MsgForAccount == "Authentication required for account"
MsgNoAccounts == "Authentication required - no accounts configured"

\* Variant: without a token from the legacy store the call waits on.
GateLegacy_Waits(c) ==
    LET e == GetAccessTokenAsync(c)
    IN  IF e.ret = Pending THEN Effect(e.cache, e.ex, Pending, "legacy")
        ELSE IF e.ret.kind = "token" THEN Effect(e.cache, e.ex, e.ret, "legacy")
        ELSE Effect(e.cache, e.ex, Pending, "legacy")

\* the legacy fallback of ensureAuthenticated
GateLegacy(c) ==
    LET e == GetAccessTokenAsync(c)
    IN  IF e.ret = Pending THEN Effect(e.cache, e.ex, Pending, "legacy")
        ELSE IF e.ret.kind = "token" THEN Effect(e.cache, e.ex, e.ret, "legacy")
        ELSE Effect(e.cache, e.ex, RetThrow(MsgNoAccounts), "legacy")

\* Variant: an explicit account without a token falls through to the
\* default account and the legacy store.
EnsureAuthenticated_FallsBack(c, accountId, forceNew) ==
    LET e == AMGetAccessToken(accountId, c)
        d == GetDefaultAccount
        f == AMGetAccessToken(accounts[d].id, c)
    IN  IF forceNew
        THEN Effect(cachedTokens, <<>>, RetThrow(MsgRequired), "forceNew")
        ELSE IF accountId # NoAccount /\ e.ret = Pending
             THEN Effect(e.cache, e.ex, Pending, "explicit")
        ELSE IF accountId # NoAccount /\ e.ret.kind = "token"
             THEN Effect(e.cache, e.ex, e.ret, "explicit")
        ELSE IF d # 0 /\ f.ret = Pending THEN Effect(f.cache, f.ex, Pending, "default")
        ELSE IF d # 0 /\ f.ret.kind = "token" THEN Effect(f.cache, f.ex, f.ret, "default")
        ELSE GateLegacy(c)

\* Variant: the legacy store is asked before the registry default.
EnsureAuthenticated_LegacyFirst(c, accountId, forceNew) ==
    LET l == GetAccessTokenAsync(c)
        d == GetDefaultAccount
        e == AMGetAccessToken(IF accountId # NoAccount THEN accountId ELSE accounts[d].id, c)
    IN  IF forceNew
        THEN Effect(cachedTokens, <<>>, RetThrow(MsgRequired), "forceNew")
        ELSE IF accountId # NoAccount
             THEN IF e.ret = Pending THEN Effect(e.cache, e.ex, Pending, "explicit")
                  ELSE IF e.ret.kind = "token" THEN Effect(e.cache, e.ex, e.ret, "explicit")
                  ELSE Effect(e.cache, e.ex, RetThrow(MsgForAccount), "explicit")
        ELSE IF l.ret # Pending /\ l.ret.kind = "token"
             THEN Effect(l.cache, l.ex, l.ret, "legacy")
        ELSE IF d # 0 /\ e.ret = Pending THEN Effect(e.cache, e.ex, Pending, "default")
        ELSE IF d # 0 /\ e.ret.kind = "token" THEN Effect(e.cache, e.ex, e.ret, "default")
        ELSE GateLegacy(c)

\* Variant: forceNew is honoured only when no account is named.
EnsureAuthenticated_ForceDefaultOnly(c, accountId, forceNew) ==
    IF accountId # NoAccount
    THEN LET e == AMGetAccessToken(accountId, c)
         IN  IF e.ret = Pending THEN Effect(e.cache, e.ex, Pending, "explicit")
             ELSE IF e.ret.kind = "token" THEN Effect(e.cache, e.ex, e.ret, "explicit")
             ELSE Effect(e.cache, e.ex, RetThrow(MsgForAccount), "explicit")
    ELSE IF forceNew
    THEN Effect(cachedTokens, <<>>, RetThrow(MsgRequired), "forceNew")
    ELSE LET d == GetDefaultAccount
             e == AMGetAccessToken(accounts[d].id, c)
         IN  IF d # 0 /\ e.ret = Pending THEN Effect(e.cache, e.ex, Pending, "default")
             ELSE IF d # 0 /\ e.ret.kind = "token"
                  THEN Effect(e.cache, e.ex, e.ret, "default")
             ELSE GateLegacy(c)

\* ensureAuthenticated(accountId, forceNew) of caller c, up to its first await
EnsureAuthenticated(c, accountId, forceNew) ==
    IF forceNew
    THEN Effect(cachedTokens, <<>>, RetThrow(MsgRequired), "forceNew")
    ELSE IF accountId # NoAccount
    THEN LET e == AMGetAccessToken(accountId, c)
         IN  IF e.ret = Pending THEN Effect(e.cache, e.ex, Pending, "explicit")
             ELSE IF e.ret.kind = "token" THEN Effect(e.cache, e.ex, e.ret, "explicit")
             ELSE Effect(e.cache, e.ex, RetThrow(MsgForAccount), "explicit")
    ELSE LET d == GetDefaultAccount
             e == AMGetAccessToken(accounts[d].id, c)
         IN  IF d # 0 /\ e.ret = Pending THEN Effect(e.cache, e.ex, Pending, "default")
             ELSE IF d # 0 /\ e.ret.kind = "token"
                  THEN Effect(e.cache, e.ex, e.ret, "default")
             ELSE GateLegacy(c)

\* Variant: after a failed refresh of an explicit account the stored token
\* is handed out.
Resume_StaleOnFailure(c, rec) ==
    LET call == calls[c]
    IN  IF rec # Null THEN Effect(cachedTokens, <<>>, RetToken(rec), call.stage)
        ELSE IF call.op = "ensureAuthenticated"
             THEN IF call.stage = "explicit"
                  THEN IF HasAccount(call.accountId)
                          /\ GetAccount(call.accountId).tokens # Null
                       THEN Effect(cachedTokens, <<>>,
                                   RetToken(GetAccount(call.accountId).tokens), "explicit")
                       ELSE Effect(cachedTokens, <<>>, RetThrow(MsgForAccount), "explicit")
                  ELSE IF call.stage = "default" THEN GateLegacy(c)
                  ELSE Effect(cachedTokens, <<>>, RetThrow(MsgNoAccounts), "legacy")
        ELSE Effect(cachedTokens, <<>>, RetNull, call.stage)

\* Variant: a refresh that fails rejects.
Resume_Rejects(c, rec) ==
    LET call == calls[c]
    IN  IF rec # Null THEN Effect(cachedTokens, <<>>, RetToken(rec), call.stage)
        ELSE IF call.op = "ensureAuthenticated"
             THEN IF call.stage = "explicit"
                  THEN Effect(cachedTokens, <<>>, RetThrow(MsgForAccount), "explicit")
                  ELSE IF call.stage = "default" THEN GateLegacy(c)
                  ELSE Effect(cachedTokens, <<>>, RetThrow(MsgNoAccounts), "legacy")
        ELSE Effect(cachedTokens, <<>>, RetThrow("refresh failed"), call.stage)

\* The continuation of caller c when the exchange it awaits has resolved to
\* rec (Null when the refresh failed).
Resume(c, rec) ==
    LET call == calls[c]
    IN  IF rec # Null THEN Effect(cachedTokens, <<>>, RetToken(rec), call.stage)
        ELSE IF call.op = "ensureAuthenticated"
             THEN IF call.stage = "explicit"
                  THEN Effect(cachedTokens, <<>>, RetThrow(MsgForAccount), "explicit")
                  ELSE IF call.stage = "default" THEN GateLegacy(c)
                  ELSE Effect(cachedTokens, <<>>, RetThrow(MsgNoAccounts), "legacy")
        ELSE Effect(cachedTokens, <<>>, RetNull, call.stage)

\* ------------------------------------------- remote mode: /mcp sessions
SessionIds == 1..MaxSessions
NoSession == 0
NoTransport == 0
Methods == {"POST", "GET", "DELETE"}
Bodies == {"initialize", "other"}

\* Variant: an initialize request is given a new transport whatever session
\* id it carries.
Route_AnyInitialize(sid, method, body) ==
    IF sid # NoSession /\ transports[sid] # NoTransport THEN "reuse"
    ELSE IF method = "POST" /\ body = "initialize" THEN "create"
    ELSE "reject"

\* the branch app.all('/mcp') takes for a request with header mcp-session-id
\* sid (NoSession when absent), HTTP method and req.body.method
Route(sid, method, body) ==
    IF sid # NoSession /\ transports[sid] # NoTransport THEN "reuse"
    ELSE IF sid = NoSession /\ method = "POST" /\ body = "initialize" THEN "create"
    ELSE "reject"

\* onsessioninitialized: transports[sessionId] = transport
OnSessionInitialized(map, sid, t) == [map EXCEPT ![sid] = t]

\* transport.onclose: if (transport.sessionId) delete transports[transport.sessionId]
OnClose(map, t) ==
    IF created[t].sessionId # NoSession
    THEN [map EXCEPT ![created[t].sessionId] = NoTransport]
    ELSE map

Request(sid, method, body, answer, transport) ==
    [sid |-> sid, method |-> method, body |-> body, answer |-> answer,
     transport |-> transport]

\* remote mode after start: const transports = {}
InitRemote ==
    /\ transports = [sid \in SessionIds |-> NoTransport]
    /\ created = <<>>
    /\ nextSession = 1
    /\ lastRequest = Request(NoSession, "GET", "other", "none", NoTransport)

\* ------------------------------------------------------------- actions
InitTokenFiles ==
    {Null, Corrupt, [refresh_token |-> 0, expires_at |-> 3]}
    \cup {TokenRecord(0, e, r) : e \in {0, 3, 4}, r \in BOOLEAN}

\* The state after the modules are loaded: nothing cached, the token file
\* as an earlier run or the auth server left it, no accounts on disk.
InitWith(files) ==
    /\ now = 1
    /\ cachedTokens = Null
    /\ outlookTokens = Null
    /\ tokenFile \in files
    /\ accounts = <<>>
    /\ indexFile = <<>>
    /\ tokenFiles = [id \in AccountIds |-> Null]
    /\ exchanges = <<>>
    /\ calls = [c \in Callers |-> Idle]
    /\ nextTok = 1
    /\ nextId = 1
    /\ InitRemote

Init == InitWith(InitTokenFiles)

\* What an earlier run can have left in the accounts directory, and what
\* can have become of it since: no index, an index that cannot be read or
\* parsed, or the index of one account; its token document absent,
\* unreadable, unparsable, or a record of that run.
StoredIndex ==
    <<[key |-> 1, id |-> 1, userPrincipalName |-> "a@x.org",
       displayName |-> [name |-> "a@x.org"], createdAt |-> 1, lastUsed |-> 1]>>

StoredTokenFiles ==
    {Null, Unreadable, Corrupt, TokenRecord(0, 1, TRUE), TokenRecord(0, 3, FALSE)}

\* The state after the modules are loaded over such a directory: the
\* constructor of AccountManager has run loadAccounts().
InitStored ==
    /\ now = 1
    /\ cachedTokens = Null
    /\ outlookTokens = Null
    /\ tokenFile = Null
    /\ indexFile \in {<<>>, UnreadableIndex, CorruptIndex, StoredIndex}
    /\ tokenFiles \in {[id \in AccountIds |-> IF id = 1 THEN f ELSE Null] :
                          f \in StoredTokenFiles}
    /\ accounts = LoadAccounts(indexFile, tokenFiles, now)
    /\ exchanges = <<>>
    /\ calls = [c \in Callers |-> Idle]
    /\ nextTok = 1
    /\ nextId = 2
    /\ InitRemote

\* The process ends and is started again: the module state is gone, the
\* requests in flight are gone, and the constructor of AccountManager loads
\* the registry from the files.
Restart ==
    /\ accounts' = LoadAccounts(indexFile, tokenFiles, now)
    /\ cachedTokens' = Null
    /\ outlookTokens' = Null
    /\ exchanges' = <<>>
    /\ calls' = [c \in Callers |-> Idle]
    /\ UNCHANGED <<remoteVars, now, tokenFile, indexFile, tokenFiles, nextTok, nextId>>

\* The process is started again and readFileSync of the index throws in
\* loadAccounts (the file itself is as it was): the catch leaves an empty map.
RestartIndexReadFails ==
    /\ accounts' = LoadAccounts(UnreadableIndex, tokenFiles, now)
    /\ cachedTokens' = Null
    /\ outlookTokens' = Null
    /\ exchanges' = <<>>
    /\ calls' = [c \in Callers |-> Idle]
    /\ UNCHANGED <<remoteVars, now, tokenFile, indexFile, tokenFiles, nextTok, nextId>>

\* The clock advances.
Tick ==
    /\ now < MaxTime
    /\ now' = now + 1
    /\ UNCHANGED <<remoteVars, cachedTokens, outlookTokens, tokenFile, accounts,
                   indexFile, tokenFiles, exchanges, calls, nextTok, nextId>>

\* Caller c starts operation op and runs it up to its first await.
Begin(c, op, accountId, forceNew, e) ==
    /\ calls[c].pc = "idle"
    /\ Len(exchanges) + Len(e.ex) <= MaxExchanges
    /\ cachedTokens' = e.cache
    /\ exchanges' = exchanges \o e.ex
    /\ calls' = [calls EXCEPT ![c] =
            [pc |-> IF e.ret = Pending THEN "await" ELSE "done",
             op |-> op, accountId |-> accountId, forceNew |-> forceNew,
             stage |-> e.stage, result |-> e.ret, started |-> e.ex]]
    /\ UNCHANGED <<remoteVars, now, outlookTokens, tokenFile, accounts, indexFile, tokenFiles,
                   nextTok, nextId>>

CallLoadTokenCache(c) == Begin(c, "loadTokenCache", NoAccount, FALSE, LoadEffect)

CallGetAccessToken(c) == Begin(c, "getAccessToken", NoAccount, FALSE, GetAccessTokenSync)

CallGetAccessTokenAsync(c) ==
    Begin(c, "getAccessTokenAsync", NoAccount, FALSE, GetAccessTokenAsync(c))

CallAMGetAccessToken(c, id) ==
    Begin(c, "AM.getAccessToken", id, FALSE, AMGetAccessToken(id, c))

CallEnsureAuthenticated(c, accountId, forceNew) ==
    Begin(c, "ensureAuthenticated", accountId, forceNew,
          EnsureAuthenticated(c, accountId, forceNew))

\* The caller has consumed the result of its call.
Return(c) ==
    /\ calls[c].pc = "done"
    /\ calls' = [calls EXCEPT ![c] = Idle]
    /\ UNCHANGED <<remoteVars, now, cachedTokens, outlookTokens, tokenFile, accounts, indexFile,
                   tokenFiles, exchanges, nextTok, nextId>>

\* Variant: memory is updated only when the file has been written.
SaveTokenCache_AllOrNothing(tokens, diskOk) ==
    /\ outlookTokens' = IF diskOk THEN tokens ELSE outlookTokens
    /\ cachedTokens' = IF diskOk THEN tokens ELSE cachedTokens
    /\ tokenFile' = IF diskOk THEN tokens ELSE tokenFile

\* saveTokenCache(tokens); the write to the file is best effort
SaveTokenCache(tokens, diskOk) ==
    /\ outlookTokens' = tokens
    /\ cachedTokens' = tokens
    /\ tokenFile' = IF diskOk THEN tokens ELSE tokenFile

Expiries == {now, now + 1, now + 3}

\* saveTokenCache called with the record of a new login
CallSaveTokenCache(e, withRefresh, diskOk) ==
    /\ nextTok <= MaxTok
    /\ SaveTokenCache(TokenRecord(nextTok, e, withRefresh), diskOk)
    /\ nextTok' = nextTok + 1
    /\ UNCHANGED <<remoteVars, now, accounts, indexFile, tokenFiles, exchanges, calls, nextId>>

\* saveTokenCache(tokens) called by caller c, who looks at what it returns:
\* true, also after the catch of the failed write
InvokeSaveTokenCache(c, e, withRefresh, diskOk) ==
    /\ calls[c].pc = "idle"
    /\ nextTok <= MaxTok
    /\ SaveTokenCache(TokenRecord(nextTok, e, withRefresh), diskOk)
    /\ calls' = [calls EXCEPT ![c] =
            [pc |-> "done", op |-> "saveTokenCache", accountId |-> NoAccount,
             forceNew |-> FALSE,
             stage |-> IF diskOk THEN "written" ELSE "writeFailed",
             result |-> RetBool(TRUE), started |-> <<>>,
             arg |-> TokenRecord(nextTok, e, withRefresh)]]
    /\ nextTok' = nextTok + 1
    /\ UNCHANGED <<remoteVars, now, accounts, indexFile, tokenFiles, exchanges, nextId>>

\* createTestTokens(), from the authenticate tool in test mode
CreateTestTokens(diskOk) ==
    /\ nextTok <= MaxTok
    /\ SaveTokenCache(TokenRecord(nextTok, now + DefaultExpiresIn, TRUE), diskOk)
    /\ nextTok' = nextTok + 1
    /\ UNCHANGED <<remoteVars, now, accounts, indexFile, tokenFiles, exchanges, calls, nextId>>

\* GET /auth/callback: the token response goes into the slot as received
AuthCallback(withRefresh) ==
    /\ nextTok <= MaxTok
    /\ outlookTokens' = RawResponse(nextTok, withRefresh)
    /\ nextTok' = nextTok + 1
    /\ UNCHANGED <<remoteVars, now, cachedTokens, tokenFile, accounts, indexFile, tokenFiles,
                   exchanges, calls, nextId>>

Users == {"a@x.org"}
DisplayNames == {Null, [name |-> "Alice"]}

\* Variant: the account is stored under a key of its own.
NewAccount_OwnKey(id, upn, displayName, tokens) ==
    [key |-> 1, id |-> id, userPrincipalName |-> upn,
     displayName |-> IF displayName = Null THEN [name |-> upn] ELSE displayName,
     createdAt |-> now, lastUsed |-> now, tokens |-> tokens]

\* the entry addAccount puts into the map: the object built from its
\* arguments, under the id that randomUUID() has returned
NewAccount(id, upn, displayName, tokens) ==
    [key |-> id, id |-> id, userPrincipalName |-> upn,
     displayName |-> IF displayName = Null THEN [name |-> upn] ELSE displayName,
     createdAt |-> now, lastUsed |-> now, tokens |-> tokens]

\* what addAccount(userPrincipalName, displayName, tokens) does to the
\* registry
AddAccountEffect(upn, displayName, tokens) ==
    /\ nextId <= MaxAccounts
    /\ LET accts == Append(accounts, NewAccount(nextId, upn, displayName, tokens))
           saved == SaveAccounts(accts, tokenFiles)
       IN  /\ accounts' = accts
           /\ tokenFiles' = saved.tokenFiles
           /\ indexFile' = saved.indexFile
    /\ nextId' = nextId + 1
    /\ nextTok' = IF tokens # Null /\ Has(tokens, "access_token")
                  THEN nextTok + 1 ELSE nextTok

\* addAccount(userPrincipalName, null, tokens)
AddAccount(upn, tokens) ==
    /\ AddAccountEffect(upn, Null, tokens)
    /\ UNCHANGED <<remoteVars, now, cachedTokens, outlookTokens, tokenFile, exchanges, calls>>

CallAddAccount(upn, e, withRefresh) ==
    /\ nextTok <= MaxTok
    /\ AddAccount(upn, TokenRecord(nextTok, e, withRefresh))

CallAddAccountNoTokens(upn) == AddAccount(upn, Null)

\* removeAccount(accountId), as the remove-account tool calls it: for an
\* account that getAccount has found
RemoveAccount(id) ==
    /\ HasAccount(id)
    /\ LET r == RemoveAccountFrom(accounts, tokenFiles, indexFile, id)
       IN  /\ accounts' = r.accounts
           /\ tokenFiles' = r.tokenFiles
           /\ indexFile' = r.indexFile
    /\ UNCHANGED <<remoteVars, now, cachedTokens, outlookTokens, tokenFile, exchanges, calls,
                   nextTok, nextId>>

\* updateAccountTokens(accountId, tokens) with the record of a new login
CallUpdateAccountTokens(id, e, withRefresh) ==
    /\ nextTok <= MaxTok
    /\ HasAccount(id)
    /\ LET u == UpdateAccountTokens(id, TokenRecord(nextTok, e, withRefresh))
       IN  /\ accounts' = u.accounts
           /\ tokenFiles' = u.tokenFiles
           /\ indexFile' = u.indexFile
    /\ nextTok' = nextTok + 1
    /\ UNCHANGED <<remoteVars, now, cachedTokens, outlookTokens, tokenFile, exchanges, calls, nextId>>

\* The registry operations as a caller c invokes them and looks at what they
\* return; they are synchronous, the call is over within the step.
Invoked(op, accountId, ret, arg) ==
    [pc |-> "done", op |-> op, accountId |-> accountId, forceNew |-> FALSE,
     stage |-> "registry", result |-> ret, started |-> <<>>, arg |-> arg]

\* the token records addAccount is called with: none, a record without
\* access_token, a token response as received, the record of a login
AddTokens ==
    {Null, [expires_at |-> now + 3], RawResponse(nextTok, FALSE)}
    \cup {TokenRecord(nextTok, e, r) : e \in Expiries, r \in BOOLEAN}

InvokeAddAccount(c, upn, displayName, tokens) ==
    /\ calls[c].pc = "idle"
    /\ (tokens # Null /\ Has(tokens, "access_token")) => nextTok <= MaxTok
    /\ AddAccountEffect(upn, displayName, tokens)
    /\ calls' = [calls EXCEPT ![c] = Invoked("addAccount", NoAccount, RetId(nextId), tokens)]
    /\ UNCHANGED <<remoteVars, now, cachedTokens, outlookTokens, tokenFile, exchanges>>

InvokeRemoveAccount(c, id) ==
    /\ calls[c].pc = "idle"
    /\ LET r == RemoveAccountFrom(accounts, tokenFiles, indexFile, id)
       IN  /\ accounts' = r.accounts
           /\ tokenFiles' = r.tokenFiles
           /\ indexFile' = r.indexFile
           /\ calls' = [calls EXCEPT ![c] =
                    Invoked("removeAccount", id, RetBool(r.ret), Null)]
    /\ UNCHANGED <<remoteVars, now, cachedTokens, outlookTokens, tokenFile, exchanges, nextTok, nextId>>

InvokeUpdateAccountTokens(c, id, e, withRefresh) ==
    /\ calls[c].pc = "idle"
    /\ nextTok <= MaxTok
    /\ LET tokens == TokenRecord(nextTok, e, withRefresh)
           u == UpdateAccountTokens(id, tokens)
       IN  /\ accounts' = u.accounts
           /\ tokenFiles' = u.tokenFiles
           /\ indexFile' = u.indexFile
           /\ calls' = [calls EXCEPT ![c] =
                    Invoked("updateAccountTokens", id, RetBool(u.ret), tokens)]
    /\ nextTok' = nextTok + 1
    /\ UNCHANGED <<remoteVars, now, cachedTokens, outlookTokens, tokenFile, exchanges, nextId>>

\* getAllAccounts()
CallGetAllAccounts(c) ==
    Begin(c, "getAllAccounts", NoAccount, FALSE,
          Effect(cachedTokens, <<>>, RetList(GetAllAccounts(accounts, now)), "registry"))

\* getDefaultAccount()
CallGetDefaultAccount(c) ==
    Begin(c, "getDefaultAccount", NoAccount, FALSE,
          Effect(cachedTokens, <<>>,
                 IF GetDefaultAccount = 0 THEN RetNull
                 ELSE RetAccount(accounts[GetDefaultAccount]),
                 "registry"))

\* The texts of a tool response.
TextGuidance == "Authentication required. Please use the 'authenticate' tool first."
TextError == "Error listing emails: "

\* What handleListEmails answers once its call of ensureAuthenticated has
\* settled with r: the catch block compares error.message with
\* 'Authentication required'; with a token the handler goes on to the Graph
\* API.
HandlerResponse(r) ==
    IF r.kind = "throw"
    THEN IF r.message = MsgRequired
         THEN [kind |-> "response", text |-> TextGuidance, at |-> now]
         ELSE [kind |-> "response", text |-> TextError, message |-> r.message, at |-> now]
    ELSE [kind |-> "response", text |-> "emails", at |-> now]

\* The continuation of a tool handler after 'await ensureAuthenticated(...)'.
HandleListEmails(c) ==
    /\ calls[c].pc = "done"
    /\ calls[c].op = "ensureAuthenticated"
    /\ calls' = [calls EXCEPT ![c] =
            [@ EXCEPT !.op = "handleListEmails",
                      !.result = HandlerResponse(calls[c].result)]]
    /\ UNCHANGED <<remoteVars, now, cachedTokens, outlookTokens, tokenFile, accounts, indexFile,
                   tokenFiles, exchanges, nextTok, nextId>>

\* What the identity provider can answer to a refresh request.
ExpiresInValues == {0, 1, 3}

SuccessBodies ==
    {[access_token |-> nextTok, refresh_token |-> nextTok, expires_in |-> k] :
        k \in ExpiresInValues}
    \cup {[access_token |-> nextTok, refresh_token |-> nextTok],
          [access_token |-> nextTok, expires_in |-> 3]}

Outcomes ==
    {[kind |-> "response", status |-> 200, body |-> b] : b \in SuccessBodies}
    \cup {[kind |-> "response", status |-> 400, body |-> [error |-> "invalid_grant"]],
          [kind |-> "response", status |-> 200, body |-> [error |-> "invalid_grant"]],
          [kind |-> "response", status |-> 200, body |-> Corrupt],
          [kind |-> "error"]}

\* The answer to the i-th outstanding refresh request arrives: the 'end'
\* (or 'error') handler of refreshAccessToken runs, then the continuation
\* of the call that awaits it.
ProviderRespond(i, outcome, diskOk) ==
    LET x == exchanges[i]
        ok == RefreshSucceeds(outcome)
        rec == IF ok THEN NewTokens(outcome.body) ELSE Null
        stored == ok /\ x.kind = "account"
        u == UpdateAccountTokens(x.account, rec)
        e == IF x.waiter = Detached THEN Effect(cachedTokens, <<>>, Null, "detached")
             ELSE Resume(x.waiter, rec)
    IN  /\ i \in 1..Len(exchanges)
        /\ ok => nextTok <= MaxTok
        /\ (diskOk = FALSE) => (ok /\ x.kind = "legacy")
        /\ nextTok' = IF ok THEN nextTok + 1 ELSE nextTok
        /\ IF ok /\ x.kind = "legacy"
           THEN SaveTokenCache(rec, diskOk)
           ELSE /\ cachedTokens' = e.cache
                /\ UNCHANGED <<outlookTokens, tokenFile>>
        /\ accounts' = IF stored THEN u.accounts ELSE accounts
        /\ tokenFiles' = IF stored THEN u.tokenFiles ELSE tokenFiles
        /\ indexFile' = IF stored THEN u.indexFile ELSE indexFile
        /\ exchanges' = SeqRemove(exchanges, i) \o e.ex
        /\ calls' = IF x.waiter = Detached THEN calls
                    ELSE [calls EXCEPT ![x.waiter] =
                            [@ EXCEPT !.pc = IF e.ret = Pending THEN "await" ELSE "done",
                                      !.stage = e.stage,
                                      !.result = e.ret,
                                      !.started = @ \o e.ex]]
        /\ UNCHANGED <<remoteVars, now, nextId>>

\* app.all('/mcp') up to its first await: a known session id gets its
\* transport, whose handleRequest closes the transport on DELETE; an
\* initialize POST without session id gets a new transport, which is then
\* connected; everything else is answered 400.
McpRequest(sid, method, body) ==
    /\ IF Route(sid, method, body) = "reuse"
       THEN /\ lastRequest' = Request(sid, method, body, "handled", transports[sid])
            /\ IF method = "DELETE"
               THEN /\ created' = [created EXCEPT ![transports[sid]].closed = TRUE]
                    /\ transports' = OnClose(transports, transports[sid])
               ELSE UNCHANGED <<created, transports>>
       ELSE IF Route(sid, method, body) = "create"
       THEN /\ Len(created) < MaxSessions
            /\ created' = Append(created, [sessionId |-> NoSession, closed |-> FALSE])
            /\ lastRequest' = Request(sid, method, body, "created", Len(created) + 1)
            /\ UNCHANGED transports
       ELSE /\ lastRequest' = Request(sid, method, body, "400", NoTransport)
            /\ UNCHANGED <<created, transports>>
    /\ UNCHANGED <<authVars, nextSession>>

\* after await server.connect(transport): transport.handleRequest of the
\* initialize request; the transport draws its session id and calls
\* onsessioninitialized
HandleInitialize(t) ==
    /\ t \in 1..Len(created)
    /\ created[t].sessionId = NoSession
    /\ ~created[t].closed
    /\ nextSession \in SessionIds
    /\ created' = [created EXCEPT ![t].sessionId = nextSession]
    /\ transports' = OnSessionInitialized(transports, nextSession, t)
    /\ nextSession' = nextSession + 1
    /\ UNCHANGED <<authVars, lastRequest>>

Next ==
    \/ Tick
    \/ \E c \in Callers : CallLoadTokenCache(c)
    \/ \E c \in Callers : CallGetAccessToken(c)
    \/ \E c \in Callers : CallGetAccessTokenAsync(c)
    \/ \E c \in Callers, id \in AccountIds : CallAMGetAccessToken(c, id)
    \/ \E c \in Callers, id \in AccountIds \cup {NoAccount}, f \in BOOLEAN :
            CallEnsureAuthenticated(c, id, f)
    \/ \E c \in Callers : Return(c)
    \/ \E e \in Expiries, r \in BOOLEAN, d \in BOOLEAN : CallSaveTokenCache(e, r, d)
    \/ \E c \in Callers, e \in Expiries, r \in BOOLEAN, d \in BOOLEAN :
            InvokeSaveTokenCache(c, e, r, d)
    \/ \E d \in BOOLEAN : CreateTestTokens(d)
    \/ \E r \in BOOLEAN : AuthCallback(r)
    \/ \E upn \in Users, e \in Expiries, r \in BOOLEAN : CallAddAccount(upn, e, r)
    \/ \E upn \in Users : CallAddAccountNoTokens(upn)
    \/ \E id \in AccountIds : RemoveAccount(id)
    \/ \E id \in AccountIds, e \in Expiries, r \in BOOLEAN : CallUpdateAccountTokens(id, e, r)
    \/ \E c \in Callers, upn \in Users, dn \in DisplayNames, t \in AddTokens :
            InvokeAddAccount(c, upn, dn, t)
    \/ \E c \in Callers, id \in AccountIds : InvokeRemoveAccount(c, id)
    \/ \E c \in Callers, id \in AccountIds, e \in Expiries, r \in BOOLEAN :
            InvokeUpdateAccountTokens(c, id, e, r)
    \/ \E c \in Callers : CallGetAllAccounts(c)
    \/ \E c \in Callers : CallGetDefaultAccount(c)
    \/ \E c \in Callers : HandleListEmails(c)
    \/ Restart
    \/ RestartIndexReadFails
    \/ \E i \in 1..MaxExchanges, o \in Outcomes, d \in BOOLEAN : ProviderRespond(i, o, d)
    \/ \E sid \in SessionIds \cup {NoSession}, m \in Methods, b \in Bodies : McpRequest(sid, m, b)
    \/ \E t \in 1..MaxSessions : HandleInitialize(t)

Spec == Init /\ [][Next]_vars

\* The legacy Token Store on its own: the registry stays empty.
NextLegacy ==
    \/ Tick
    \/ \E c \in Callers : CallLoadTokenCache(c)
    \/ \E c \in Callers : CallGetAccessToken(c)
    \/ \E c \in Callers : CallGetAccessTokenAsync(c)
    \/ \E c \in Callers, f \in BOOLEAN : CallEnsureAuthenticated(c, NoAccount, f)
    \/ \E c \in Callers : Return(c)
    \/ \E e \in Expiries, r \in BOOLEAN, d \in BOOLEAN : CallSaveTokenCache(e, r, d)
    \/ \E c \in Callers, e \in Expiries, r \in BOOLEAN, d \in BOOLEAN :
            InvokeSaveTokenCache(c, e, r, d)
    \/ \E d \in BOOLEAN : CreateTestTokens(d)
    \/ \E r \in BOOLEAN : AuthCallback(r)
    \/ \E i \in 1..MaxExchanges, o \in Outcomes, d \in BOOLEAN : ProviderRespond(i, o, d)

SpecLegacy == Init /\ [][NextLegacy]_vars

\* The gate over the registry, with the legacy store as an earlier run
\* left it.
InitGate == InitWith({Null, TokenRecord(0, 0, TRUE), TokenRecord(0, 3, FALSE)})

NextGate ==
    \/ Tick
    \/ \E c \in Callers, id \in AccountIds \cup {NoAccount}, f \in BOOLEAN :
            CallEnsureAuthenticated(c, id, f)
    \/ \E c \in Callers : Return(c)
    \/ \E upn \in Users, e \in Expiries, r \in BOOLEAN : CallAddAccount(upn, e, r)
    \/ \E upn \in Users : CallAddAccountNoTokens(upn)
    \/ \E id \in AccountIds : RemoveAccount(id)
    \/ \E i \in 1..MaxExchanges, o \in Outcomes, d \in BOOLEAN : ProviderRespond(i, o, d)

SpecGate == InitGate /\ [][NextGate]_vars

\* The identity provider answers the exchange that caller c awaits.
Answered(c) ==
    \E i \in 1..MaxExchanges, o \in Outcomes, d \in BOOLEAN :
        /\ i \in 1..Len(exchanges)
        /\ exchanges[i].waiter = c
        /\ ProviderRespond(i, o, d)

\* The gate with an identity provider that answers, or errors on, every
\* exchange a call awaits.
NextAnswered ==
    \/ Tick
    \/ \E c \in Callers, id \in AccountIds \cup {NoAccount} :
            CallEnsureAuthenticated(c, id, FALSE)
    \/ \E c \in Callers : Return(c)
    \/ \E upn \in Users, e \in Expiries, r \in BOOLEAN : CallAddAccount(upn, e, r)
    \/ \E i \in 1..MaxExchanges, o \in Outcomes, d \in BOOLEAN : ProviderRespond(i, o, d)

SpecAnswered ==
    InitGate /\ [][NextAnswered]_vars /\ \A c \in Callers : WF_vars(Answered(c))

\* The Account Registry on its own.
InitRegistry == InitWith({Null})

NextRegistry ==
    \/ Tick
    \/ \E c \in Callers, id \in AccountIds : CallAMGetAccessToken(c, id)
    \/ \E c \in Callers, id \in AccountIds : CallEnsureAuthenticated(c, id, FALSE)
    \/ \E c \in Callers : Return(c)
    \/ \E upn \in Users, e \in Expiries, r \in BOOLEAN : CallAddAccount(upn, e, r)
    \/ \E upn \in Users : CallAddAccountNoTokens(upn)
    \/ \E id \in AccountIds : RemoveAccount(id)
    \/ \E id \in AccountIds, e \in Expiries, r \in BOOLEAN : CallUpdateAccountTokens(id, e, r)
    \/ \E i \in 1..MaxExchanges, o \in Outcomes, d \in BOOLEAN : ProviderRespond(i, o, d)

SpecRegistry == InitRegistry /\ [][NextRegistry]_vars

\* The token accessors below the gate and the gate, over a token file that
\* cannot be read, cannot be parsed, or holds a record with a refresh token.
InitBelow ==
    InitWith({Unreadable, Corrupt, TokenRecord(0, 0, TRUE), TokenRecord(0, 3, TRUE)})

NextBelow ==
    \/ Tick
    \/ \E c \in Callers : CallLoadTokenCache(c)
    \/ \E c \in Callers : CallGetAccessToken(c)
    \/ \E c \in Callers : CallGetAccessTokenAsync(c)
    \/ \E c \in Callers, id \in AccountIds : CallAMGetAccessToken(c, id)
    \/ \E c \in Callers, id \in AccountIds \cup {NoAccount}, f \in BOOLEAN :
            CallEnsureAuthenticated(c, id, f)
    \/ \E c \in Callers : Return(c)
    \/ \E upn \in Users, e \in Expiries, r \in BOOLEAN : CallAddAccount(upn, e, r)
    \/ \E i \in 1..MaxExchanges, o \in Outcomes, d \in BOOLEAN : ProviderRespond(i, o, d)

SpecBelow == InitBelow /\ [][NextBelow]_vars

\* The Account Registry over the files of an earlier run, with restarts.
NextStored ==
    \/ Tick
    \/ Restart
    \/ \E c \in Callers, id \in AccountIds : CallAMGetAccessToken(c, id)
    \/ \E c \in Callers, id \in AccountIds \cup {NoAccount} :
            CallEnsureAuthenticated(c, id, FALSE)
    \/ \E c \in Callers : CallGetAllAccounts(c)
    \/ \E c \in Callers : CallGetDefaultAccount(c)
    \/ \E c \in Callers : Return(c)
    \/ \E upn \in Users, e \in Expiries, r \in BOOLEAN : CallAddAccount(upn, e, r)
    \/ \E upn \in Users : CallAddAccountNoTokens(upn)
    \/ \E id \in AccountIds : RemoveAccount(id)
    \/ \E id \in AccountIds, e \in Expiries, r \in BOOLEAN : CallUpdateAccountTokens(id, e, r)
    \/ \E i \in 1..MaxExchanges, o \in Outcomes, d \in BOOLEAN : ProviderRespond(i, o, d)

SpecStored == InitStored /\ [][NextStored]_vars

\* The Account Registry over a readable index with one account: loads (also
\* loads whose read of the index fails), adds, updates and refreshes, and
\* no removeAccount.
InitLoaded == InitStored /\ indexFile = StoredIndex

NextLoaded ==
    \/ Tick
    \/ Restart
    \/ RestartIndexReadFails
    \/ \E c \in Callers, id \in AccountIds : CallAMGetAccessToken(c, id)
    \/ \E c \in Callers : Return(c)
    \/ \E upn \in Users, e \in Expiries, r \in BOOLEAN : CallAddAccount(upn, e, r)
    \/ \E upn \in Users : CallAddAccountNoTokens(upn)
    \/ \E id \in AccountIds, e \in Expiries, r \in BOOLEAN : CallUpdateAccountTokens(id, e, r)
    \/ \E i \in 1..MaxExchanges, o \in Outcomes, d \in BOOLEAN : ProviderRespond(i, o, d)

SpecLoaded == InitLoaded /\ [][NextLoaded]_vars

\* Remote mode: the requests to /mcp and the session map.
NextRemote ==
    \/ \E sid \in SessionIds \cup {NoSession}, m \in Methods, b \in Bodies :
            McpRequest(sid, m, b)
    \/ \E t \in 1..MaxSessions : HandleInitialize(t)

SpecRemote == InitRegistry /\ [][NextRemote]_vars

\* Invocations that overlap within one instant: the registry holds one
\* account of an earlier run and the legacy token file a record, both
\* inside the refresh window.
InitConcurrent ==
    /\ now = 1
    /\ cachedTokens = Null
    /\ outlookTokens = Null
    /\ tokenFile = TokenRecord(0, 1, TRUE)
    /\ indexFile = StoredIndex
    /\ tokenFiles = [id \in AccountIds |-> IF id = 1 THEN TokenRecord(0, 1, TRUE) ELSE Null]
    /\ accounts = LoadAccounts(indexFile, tokenFiles, now)
    /\ exchanges = <<>>
    /\ calls = [c \in Invocations |-> Idle]
    /\ nextTok = 1
    /\ nextId = 2
    /\ InitRemote

NextConcurrent ==
    \/ \E c \in Invocations : CallGetAccessToken(c)
    \/ \E c \in Invocations : CallGetAccessTokenAsync(c)
    \/ \E c \in Invocations, id \in AccountIds : CallAMGetAccessToken(c, id)
    \/ \E c \in Invocations : Return(c)
    \/ \E i \in 1..MaxExchanges, o \in Outcomes, d \in BOOLEAN : ProviderRespond(i, o, d)

SpecConcurrent == InitConcurrent /\ [][NextConcurrent]_vars

\* One call after another over the same stores, each call kept with its
\* result: what a call does after an earlier one has failed.
NextRetry ==
    \/ Tick
    \/ \E c \in Invocations : CallGetAccessTokenAsync(c)
    \/ \E c \in Invocations, id \in AccountIds : CallAMGetAccessToken(c, id)
    \/ \E c \in Invocations, id \in AccountIds \cup {NoAccount} :
            CallEnsureAuthenticated(c, id, FALSE)
    \/ \E i \in 1..MaxExchanges, o \in Outcomes, d \in BOOLEAN : ProviderRespond(i, o, d)

SpecRetry == InitConcurrent /\ [][NextRetry]_vars

\* Records without a refresh token that run out: one in the token file of
\* the legacy store, one held by a registry account.
InitDated ==
    /\ now = 1
    /\ cachedTokens = Null
    /\ outlookTokens = Null
    /\ tokenFile = TokenRecord(0, 1, FALSE)
    /\ indexFile = StoredIndex
    /\ tokenFiles = [id \in AccountIds |-> IF id = 1 THEN TokenRecord(0, 1, FALSE) ELSE Null]
    /\ accounts = LoadAccounts(indexFile, tokenFiles, now)
    /\ exchanges = <<>>
    /\ calls = [c \in Callers |-> Idle]
    /\ nextTok = 1
    /\ nextId = 2
    /\ InitRemote

NextDated ==
    \/ Tick
    \/ Restart
    \/ \E c \in Callers : CallGetAccessTokenAsync(c)
    \/ \E c \in Callers, id \in AccountIds : CallAMGetAccessToken(c, id)
    \/ \E c \in Callers, id \in AccountIds \cup {NoAccount} :
            CallEnsureAuthenticated(c, id, FALSE)
    \/ \E c \in Callers : CallGetAllAccounts(c)
    \/ \E c \in Callers : CallGetDefaultAccount(c)
    \/ \E c \in Callers : Return(c)
    \/ \E upn \in Users, e \in Expiries, r \in BOOLEAN : CallAddAccount(upn, e, r)
    \/ \E id \in AccountIds : RemoveAccount(id)
    \/ \E id \in AccountIds, e \in Expiries, r \in BOOLEAN : CallUpdateAccountTokens(id, e, r)
    \/ \E i \in 1..MaxExchanges, o \in Outcomes, d \in BOOLEAN : ProviderRespond(i, o, d)

SpecDated == InitDated /\ [][NextDated]_vars

\* A tool handler over the gate.
NextHandler ==
    \/ Tick
    \/ \E c \in Callers, id \in AccountIds \cup {NoAccount}, f \in BOOLEAN :
            CallEnsureAuthenticated(c, id, f)
    \/ \E c \in Callers : HandleListEmails(c)
    \/ \E c \in Callers : Return(c)
    \/ \E upn \in Users, e \in Expiries, r \in BOOLEAN : CallAddAccount(upn, e, r)
    \/ \E upn \in Users : CallAddAccountNoTokens(upn)
    \/ \E i \in 1..MaxExchanges, o \in Outcomes, d \in BOOLEAN : ProviderRespond(i, o, d)

SpecHandler == InitGate /\ [][NextHandler]_vars

\* The management interface of the Account Registry, each call with its
\* result.
NextAdmin ==
    \/ Tick
    \/ \E c \in Callers, upn \in Users, dn \in DisplayNames, t \in AddTokens :
            InvokeAddAccount(c, upn, dn, t)
    \/ \E c \in Callers, id \in AccountIds : InvokeRemoveAccount(c, id)
    \/ \E c \in Callers, id \in AccountIds, e \in Expiries, r \in BOOLEAN :
            InvokeUpdateAccountTokens(c, id, e, r)
    \/ \E c \in Callers : CallGetAllAccounts(c)
    \/ \E c \in Callers : CallGetDefaultAccount(c)
    \/ \E c \in Callers, id \in AccountIds : CallAMGetAccessToken(c, id)
    \/ \E c \in Callers : Return(c)
    \/ \E i \in 1..MaxExchanges, o \in Outcomes, d \in BOOLEAN : ProviderRespond(i, o, d)

SpecAdmin == InitRegistry /\ [][NextAdmin]_vars

TypeOK ==
    /\ now \in 1..MaxTime
    /\ Len(exchanges) <= MaxExchanges
    /\ nextTok \in 1..(MaxTok + 1)
    /\ Len(accounts) <= MaxAccounts

\* ------------------------------------------------------------ properties
Done(c) == calls[c].pc = "done"
DoneOp(c, op) == Done(c) /\ calls[c].op = op

\* a step of caller c's own call (its start, or its continuation)
Starts(c) == calls[c].pc = "idle" /\ calls'[c].pc # "idle"
Continues(c) == calls[c].pc = "await" /\ calls'[c] # calls[c]
OwnStep(c) == Starts(c) \/ Continues(c)

AllFor(started, id) ==
    \A k \in 1..Len(started) : started[k].kind = "account" /\ started[k].account = id

\* the record loadTokenCache reads: the slot, or the file when the slot is empty
SelectedRecord == IF outlookTokens # Null THEN outlookTokens ELSE tokenFile

\* C1: a call of ensureAuthenticated that returns normally returns the access
\* token of a record whose expires_at lies after the time of the return; in
\* every other case it throws.
C1_FailClosed ==
    \A c \in Callers :
        DoneOp(c, "ensureAuthenticated") =>
            LET r == calls[c].result
            IN  /\ r.kind \in {"token", "throw"}
                /\ r.kind = "token" =>
                      Has(r.src, "expires_at") /\ r.src.expires_at > r.at

\* C2: with an accountId (forceNew false) ensureAuthenticated returns the
\* token of that account - its stored record, or the record of a refresh of
\* that account - or throws; it starts no exchange for another account or
\* for the legacy store, does not touch the legacy store, and throws when the
\* account has no token even if the default account or the legacy store has
\* a live one.
C2_ExplicitOnly ==
    [][\A c \in Callers :
        (/\ OwnStep(c)
         /\ calls'[c].op = "ensureAuthenticated"
         /\ calls'[c].accountId # NoAccount
         /\ ~calls'[c].forceNew) =>
            LET id == calls'[c].accountId
                r == calls'[c].result
            IN  /\ UNCHANGED legacyVars
                /\ calls'[c].stage = "explicit"
                /\ AllFor(calls'[c].started, id)
                /\ calls'[c].pc = "done" => r.kind \in {"token", "throw"}
                /\ (Starts(c) /\ calls'[c].pc = "done" /\ r.kind = "token") =>
                      HasAccount(id) /\ r.src = GetAccount(id).tokens
                /\ (Starts(c) /\ (~HasAccount(id) \/ GetAccount(id).tokens = Null)) =>
                      calls'[c].pc = "done" /\ r.kind = "throw"
                /\ (Continues(c) /\ r.kind = "token") =>
                      r.token = nextTok /\ nextTok' = nextTok + 1
      ]_vars

C2_Witness ==
    \E c \in Callers :
        /\ DoneOp(c, "ensureAuthenticated")
        /\ calls[c].accountId # NoAccount
        /\ calls[c].result.kind = "throw"
        /\ calls[c].result.at = now
        /\ GetDefaultAccount # 0
        /\ tokenFile = TokenRecord(0, 3, FALSE)
        /\ now < 3

\* C3: without accountId, when getDefaultAccount finds an account
\* ensureAuthenticated asks the registry for its token and returns it without
\* reading or refreshing the legacy store; the legacy store is consulted only
\* when there is no default account or its refresh failed, and the call throws
\* only after the legacy store has produced no token.
C3_DefaultThenLegacy ==
    [][\A c \in Callers :
        (/\ OwnStep(c)
         /\ calls'[c].op = "ensureAuthenticated"
         /\ calls'[c].accountId = NoAccount
         /\ ~calls'[c].forceNew) =>
            LET d == GetDefaultAccount
                r == calls'[c].result
            IN  /\ (Starts(c) /\ d # 0) =>
                      /\ calls'[c].stage = "default"
                      /\ UNCHANGED legacyVars
                      /\ AllFor(calls'[c].started, accounts[d].id)
                      /\ calls'[c].pc = "done" =>
                            r.kind = "token" /\ r.src = accounts[d].tokens
                /\ (Starts(c) /\ d = 0) => calls'[c].stage = "legacy"
                /\ (Continues(c) /\ calls[c].stage = "default") =>
                      \/ /\ calls'[c].stage = "default"
                         /\ calls'[c].pc = "done"
                         /\ r.kind = "token" /\ r.token = nextTok
                         /\ calls'[c].started = calls[c].started
                         /\ UNCHANGED legacyVars
                      \/ /\ calls'[c].stage = "legacy"
                         /\ nextTok' = nextTok
                /\ calls'[c].pc = "done" =>
                      /\ r.kind \in {"token", "throw"}
                      /\ r.kind = "throw" =>
                            calls'[c].stage = "legacy" /\ r.message = MsgNoAccounts
                      /\ (r.kind = "token" /\ calls'[c].stage = "legacy") =>
                            r.src \in {outlookTokens', tokenFile'}
      ]_vars

C3_Witness ==
    \E c \in Callers :
        /\ DoneOp(c, "ensureAuthenticated")
        /\ calls[c].accountId = NoAccount
        /\ calls[c].stage = "default"
        /\ calls[c].result.kind = "token"
        /\ tokenFile = TokenRecord(0, 3, FALSE)
        /\ calls[c].result.at < 3
        /\ cachedTokens = Null

\* C5: with forceNew, ensureAuthenticated throws 'Authentication required'
\* for every accountId and every stored state, starts no exchange and changes
\* nothing.
C5_ForceNew ==
    [][\A c \in Callers :
        (/\ Starts(c)
         /\ calls'[c].op = "ensureAuthenticated"
         /\ calls'[c].forceNew) =>
            /\ calls'[c].pc = "done"
            /\ calls'[c].result.kind = "throw"
            /\ calls'[c].result.message = MsgRequired
            /\ calls'[c].started = <<>>
            /\ UNCHANGED <<now, legacyVars, registryVars, exchanges, nextTok, nextId>>
      ]_vars

C5_Witness ==
    \E c \in Callers :
        /\ DoneOp(c, "ensureAuthenticated")
        /\ calls[c].forceNew
        /\ calls[c].result.kind = "throw"
        /\ calls[c].accountId # NoAccount
        /\ HasAccount(calls[c].accountId)
        /\ HasValidTokens(GetAccount(calls[c].accountId))

\* a record the legacy store can hand out as it is: access token, expiry
\* more than five minutes away
Live(t) ==
    /\ Has(t, "access_token")
    /\ Has(t, "expires_at")
    /\ t.expires_at > now + FiveMinutes

\* C4 as stated: with an empty registry and a live record in the legacy
\* store, ensureAuthenticated() returns that record's access token, starts
\* no exchange and leaves the registry and the whole legacy store (module
\* cache, slot, file) unchanged.
C4_StoresUnchanged ==
    [][\A c \in Callers :
        (/\ Starts(c)
         /\ calls'[c].op = "ensureAuthenticated"
         /\ calls'[c].accountId = NoAccount
         /\ ~calls'[c].forceNew
         /\ accounts = <<>>
         /\ Live(SelectedRecord)) =>
            /\ calls'[c].pc = "done"
            /\ calls'[c].result.kind = "token"
            /\ calls'[c].result.src = SelectedRecord
            /\ calls'[c].started = <<>>
            /\ UNCHANGED <<cachedTokens, outlookTokens, tokenFile, registryVars, exchanges>>
      ]_vars

\* C4 (amended): with an empty registry and a live record in the legacy
\* store (in the slot, or in the file when the slot is empty),
\* ensureAuthenticated() returns that record's access token, starts no
\* exchange and leaves the registry, the slot and the file unchanged; the
\* module cache is set to that record.
C4_LegacyFallback ==
    [][\A c \in Callers :
        (/\ Starts(c)
         /\ calls'[c].op = "ensureAuthenticated"
         /\ calls'[c].accountId = NoAccount
         /\ ~calls'[c].forceNew
         /\ accounts = <<>>
         /\ Live(SelectedRecord)) =>
            /\ calls'[c].pc = "done"
            /\ calls'[c].result.kind = "token"
            /\ calls'[c].result.src = SelectedRecord
            /\ calls'[c].started = <<>>
            /\ cachedTokens' = SelectedRecord
            /\ UNCHANGED <<outlookTokens, tokenFile, registryVars, exchanges>>
      ]_vars

C4_Witness ==
    \E c \in Callers :
        /\ DoneOp(c, "ensureAuthenticated")
        /\ calls[c].accountId = NoAccount
        /\ calls[c].result.kind = "token"
        /\ calls[c].result.at = now
        /\ accounts = <<>>
        /\ outlookTokens = Null
        /\ Live(tokenFile)
        /\ Has(tokenFile, "refresh_token")
        /\ calls[c].result.src = tokenFile
        /\ cachedTokens = tokenFile

LegacyReaders == {"loadTokenCache", "getAccessToken", "getAccessTokenAsync"}

ExpiredAt(t, at) == Has(t, "access_token") /\ ExpiresAtOr0(t) <= at

\* C7: the legacy accessors never hand out a record (or its access token)
\* that has expires_at <= now and no refresh token, wherever it is stored.
C7_NoExpiredToken ==
    \A c \in Callers :
        (Done(c) /\ calls[c].op \in LegacyReaders) =>
            LET r == calls[c].result
            IN  /\ r.kind = "token" =>
                      ~(ExpiredAt(r.src, r.at) /\ ~Has(r.src, "refresh_token"))
                /\ r.kind = "record" =>
                      ~(ExpiredAt(r.rec, r.at) /\ ~Has(r.rec, "refresh_token"))

\* a record getAccessTokenAsync has to refresh
Renewable(t) ==
    /\ Has(t, "access_token")
    /\ Has(t, "refresh_token")
    /\ now + FiveMinutes > ExpiresAtOr0(t)

\* C8: when the record the legacy store reads is expired or inside the
\* 5-minute window and has a refresh token, getAccessTokenAsync waits for the
\* exchange, and when the exchange succeeds it returns the new access token
\* with the new record already in the store.
C8_AwaitsRefresh ==
    [][\A c \in Callers :
        /\ (/\ Starts(c)
            /\ calls'[c].op = "getAccessTokenAsync"
            /\ Renewable(SelectedRecord)) => calls'[c].pc = "await"
        /\ (/\ Continues(c)
            /\ calls[c].op = "getAccessTokenAsync"
            /\ nextTok' = nextTok + 1) =>
                /\ calls'[c].pc = "done"
                /\ calls'[c].result.kind = "token"
                /\ calls'[c].result.token = nextTok
                /\ outlookTokens' = calls'[c].result.src
                /\ cachedTokens' = calls'[c].result.src
      ]_vars

\* C9: when the record the legacy store reads has expires_at <= now and a
\* refresh token, loadTokenCache and getAccessTokenAsync start a refresh
\* exchange before they return anything, and never return the expired record
\* or its access token.
C9_RefreshBeforeReturn ==
    [][\A c \in Callers :
        (/\ Starts(c)
         /\ calls'[c].op \in {"loadTokenCache", "getAccessTokenAsync"}
         /\ ExpiredAt(SelectedRecord, now)
         /\ Has(SelectedRecord, "refresh_token")) =>
            /\ calls'[c].started # <<>>
            /\ calls'[c].pc = "done" =>
                  calls'[c].result.kind \in {"null", "undefined", "promise"}
      ]_vars

\* C6: when the refresh exchange of a registry account fails (a non-200
\* answer such as 400 invalid_grant, and every other failure), the waiting
\* getAccessToken yields null, the waiting ensureAuthenticated(accountId)
\* throws, and the registry (map, index, token files) is left as it was.
C6_FailedRefresh ==
    [][\A i \in 1..MaxExchanges, o \in Outcomes :
        (/\ ProviderRespond(i, o, TRUE)
         /\ ~RefreshSucceeds(o)
         /\ exchanges[i].kind = "account"
         /\ exchanges[i].waiter # Detached) =>
            LET c == exchanges[i].waiter
            IN  /\ calls'[c].pc = "done"
                /\ UNCHANGED registryVars
                /\ calls'[c].started = calls[c].started
                /\ IF calls[c].op = "ensureAuthenticated"
                   THEN /\ calls'[c].result.kind = "throw"
                        /\ calls'[c].result.message = MsgForAccount
                   ELSE calls'[c].result.kind = "null"
      ]_vars

C6_Witness ==
    \E c \in Callers :
        /\ DoneOp(c, "ensureAuthenticated")
        /\ calls[c].accountId # NoAccount
        /\ calls[c].result.kind = "throw"
        /\ calls[c].result.at = now
        /\ calls[c].started # <<>>
        /\ HasAccount(calls[c].accountId)
        /\ GetAccount(calls[c].accountId).tokens # Null
        /\ Has(GetAccount(calls[c].accountId).tokens, "refresh_token")
        /\ GetAccount(calls[c].accountId).tokens.refresh_token
              = calls[c].started[1].refresh_token
        /\ GetAccount(calls[c].accountId).tokens.expires_at > now

\* the token of account id must be refreshed before it is handed out
InWindow(t) == now + FiveMinutes > ExpiresAtOr0(t) /\ Has(t, "refresh_token")

\* how getAccessToken(accountId) starts, by the table: null without exchange
\* for an unknown account or null tokens; one exchange for a token inside the
\* window that has a refresh token; the stored access token otherwise; no
\* change of state in any case
TableStart(c) ==
    LET id == calls'[c].accountId
        tokens == GetAccount(id).tokens
    IN  /\ UNCHANGED <<registryVars, legacyVars, nextTok, nextId>>
        /\ IF ~HasAccount(id) \/ tokens = Null
           THEN /\ calls'[c].pc = "done"
                /\ calls'[c].result.kind = "null"
                /\ exchanges' = exchanges
           ELSE IF InWindow(tokens)
           THEN /\ calls'[c].pc = "await"
                /\ exchanges' = Append(exchanges,
                                       AccountExchange(id, tokens.refresh_token, c))
           ELSE /\ calls'[c].pc = "done"
                /\ calls'[c].result.kind = "token"
                /\ calls'[c].result.src = tokens
                /\ exchanges' = exchanges

\* the record rec is what the registry holds for id after the step
PersistedAfter(id, rec) ==
    /\ AccountAt(accounts', id) # 0
    /\ accounts'[AccountAt(accounts', id)].tokens = rec
    /\ tokenFiles'[id] = rec

\* how getAccessToken(accountId) ends when the answer o to its exchange
\* arrives; persisted says what has happened to the new record
TableEnd(c, o, persisted) ==
    /\ calls'[c].pc = "done"
    /\ Len(exchanges') = Len(exchanges) - 1
    /\ calls'[c].started = calls[c].started
    /\ IF RefreshSucceeds(o)
       THEN /\ calls'[c].result.kind = "token"
            /\ calls'[c].result.token = o.body.access_token
            /\ persisted
       ELSE /\ calls'[c].result.kind = "null"
            /\ UNCHANGED registryVars

Saves(c) == Starts(c) /\ calls'[c].op = "saveTokenCache"

\* C11: loadTokenCache() called right after saveTokenCache(tr) returns a
\* record whose access_token is tr.access_token, whatever the token file held
\* before, whatever the expiry of tr, and whether or not the write to the
\* file succeeded.
C11_RoundTrip ==
    [][\A c \in Callers :
        Saves(c) =>
            LET loaded == LoadTokenCache'
            IN  /\ loaded.ret # Null
                /\ loaded.ret # Promise
                /\ Has(loaded.ret, "access_token")
                /\ loaded.ret.access_token = calls'[c].arg.access_token
                /\ loaded.ex = <<>>
      ]_vars

\* loadTokenCache has returned a record that was saved while the write to
\* the file failed; the record has expired and has no refresh token.
C11_Witness ==
    \E c \in Callers :
        /\ DoneOp(c, "loadTokenCache")
        /\ calls[c].result.kind = "record"
        /\ calls[c].result.rec = outlookTokens
        /\ calls[c].result.rec.access_token >= 1
        /\ Has(calls[c].result.rec, "expires_at")
        /\ calls[c].result.rec.expires_at <= now
        /\ ~Has(calls[c].result.rec, "refresh_token")
        /\ tokenFile # outlookTokens

C13_SyncNeverWaits ==
    [][\A c \in Callers :
        (Starts(c) /\ calls'[c].op = "getAccessToken") =>
            /\ calls'[c].pc = "done"
            /\ calls'[c].result # Pending
            /\ outlookTokens' = outlookTokens
            /\ tokenFile' = tokenFile
            /\ exchanges' = exchanges \o calls'[c].started
            /\ \A k \in 1..Len(calls'[c].started) :
                    calls'[c].started[k].waiter = Detached
            /\ (cachedTokens # Null /\ Has(cachedTokens, "access_token")) =>
                    /\ calls'[c].result.kind = "token"
                    /\ calls'[c].result.token = cachedTokens.access_token
                    /\ cachedTokens' = cachedTokens
      ]_vars

\* the accessor has returned the cached token while an earlier refresh was
\* in flight and after starting one itself; both are still unanswered
C13_Witness ==
    \E c \in Callers :
        /\ DoneOp(c, "getAccessToken")
        /\ calls[c].stage = "cache"
        /\ calls[c].result.kind = "token"
        /\ calls[c].result.token = cachedTokens.access_token
        /\ Len(calls[c].started) = 1
        /\ Len(exchanges) = 2
        /\ exchanges[2] = calls[c].started[1]

\* a step in which caller c makes the synchronous call op
Invokes(c, op) == Starts(c) /\ calls'[c].op = op

Qualifies(account) ==
    /\ account.tokens # Null
    /\ Has(account.tokens, "access_token")
    /\ Has(account.tokens, "expires_at")
    /\ account.tokens.expires_at > now

\* C15: getDefaultAccount() returns the first account, in insertion order,
\* that has a token record with an access_token and expires_at > now, and
\* null when there is none; it changes nothing and starts no refresh.
C15_DefaultAccount ==
    [][\A c \in Callers :
        Invokes(c, "getDefaultAccount") =>
            /\ calls'[c].pc = "done"
            /\ calls'[c].result.kind \in {"account", "null"}
            /\ calls'[c].result.kind = "account" =>
                    \E i \in 1..Len(accounts) :
                        /\ calls'[c].result.account = accounts[i]
                        /\ Qualifies(accounts[i])
                        /\ \A j \in 1..(i - 1) : ~Qualifies(accounts[j])
            /\ calls'[c].result.kind = "null" =>
                    \A i \in 1..Len(accounts) : ~Qualifies(accounts[i])
            /\ UNCHANGED <<accounts, indexFile, tokenFiles, cachedTokens, outlookTokens,
                           tokenFile, exchanges>>
      ]_vars

\* the first account has an expired token and no refresh token, the second
\* a token that is still good: getDefaultAccount has returned the second
C15_Witness ==
    \E c \in Callers :
        /\ DoneOp(c, "getDefaultAccount")
        /\ calls[c].result.at = now
        /\ Len(accounts) = 2
        /\ accounts[1].tokens # Null
        /\ Has(accounts[1].tokens, "access_token")
        /\ ~Has(accounts[1].tokens, "refresh_token")
        /\ Has(accounts[1].tokens, "expires_at")
        /\ accounts[1].tokens.expires_at <= now
        /\ calls[c].result.kind = "account"
        /\ calls[c].result.account = accounts[2]
        /\ accounts[2].tokens.expires_at > now

\* the names a login or the provider gives to token strings
TokenNames == 1..MaxTok

\* the token record t with its token strings replaced: access_token by f,
\* refresh_token by g
RenameTokens(t, f, g) ==
    IF t = Null THEN Null
    ELSE [x \in DOMAIN t |->
            IF x = "access_token" THEN f[t[x]]
            ELSE IF x = "refresh_token" THEN g[t[x]]
            ELSE t[x]]

Renamed(accts, f, g) ==
    [i \in 1..Len(accts) |-> [accts[i] EXCEPT !.tokens = RenameTokens(@, f, g)]]

ListedFields ==
    {"id", "userPrincipalName", "displayName", "createdAt", "lastUsed", "hasValidTokens"}

\* C16: getAllAccounts() yields the same list for two registries that
\* differ only in the strings of their access and refresh tokens, and every
\* entry consists of id, userPrincipalName, displayName, createdAt, lastUsed
\* and a validity flag that is null, undefined or a boolean, never a string.
C16_NoTokenMaterial ==
    /\ \A f \in [TokenNames -> TokenNames], g \in [TokenNames -> TokenNames] :
            GetAllAccounts(Renamed(accounts, f, g), now) = GetAllAccounts(accounts, now)
    /\ \A i \in 1..Len(accounts) :
            LET entry == GetAllAccounts(accounts, now)[i]
            IN  /\ DOMAIN entry = ListedFields
                /\ entry.hasValidTokens.kind \in {"null", "undefined", "bool"}

\* getAllAccounts has listed two accounts that hold different access and
\* refresh tokens, the first expired and the second not
C16_Witness ==
    \E c \in Callers :
        /\ DoneOp(c, "getAllAccounts")
        /\ calls[c].result.list = GetAllAccounts(accounts, now)
        /\ Len(accounts) = 2
        /\ accounts[1].tokens # Null
        /\ accounts[2].tokens # Null
        /\ Has(accounts[1].tokens, "refresh_token")
        /\ Has(accounts[2].tokens, "refresh_token")
        /\ accounts[1].tokens.access_token # accounts[2].tokens.access_token
        /\ calls[c].result.list[1].hasValidTokens = JsBool(FALSE)
        /\ calls[c].result.list[2].hasValidTokens = JsBool(TRUE)

\* C17: removeAccount(id) and updateAccountTokens(id, tokens) with an id the
\* map does not have return false and leave the map, the index file and
\* every token file as they were.
C17_UnknownId ==
    [][\A c \in Callers :
        ((Invokes(c, "removeAccount") \/ Invokes(c, "updateAccountTokens"))
         /\ AccountAt(accounts, calls'[c].accountId) = 0) =>
            /\ calls'[c].result.kind = "bool"
            /\ calls'[c].result.value = FALSE
            /\ UNCHANGED <<accounts, indexFile, tokenFiles>>
      ]_vars

\* removeAccount has returned false for an id that had been removed before,
\* while the registry holds another account with its token file
C17_Witness ==
    \E c \in Callers :
        /\ DoneOp(c, "removeAccount")
        /\ calls[c].result.value = FALSE
        /\ calls[c].accountId < nextId
        /\ Len(accounts) = 1
        /\ accounts[1].tokens # Null
        /\ tokenFiles[accounts[1].id] = accounts[1].tokens

\* what C18 protects of account y: its entry in the map and its token file
AccountView(y) ==
    [entry |-> IF HasAccount(y)
               THEN [id |-> GetAccount(y).id,
                     userPrincipalName |-> GetAccount(y).userPrincipalName,
                     lastUsed |-> GetAccount(y).lastUsed,
                     tokens |-> GetAccount(y).tokens]
               ELSE Null,
     file |-> tokenFiles[y]]

\* the step is an operation on account x, or the completion of a refresh
\* of x
OperatesOn(x) ==
    \/ nextId = x /\ nextId' = x + 1
    \/ RemoveAccount(x)
    \/ \E e \in Expiries, r \in BOOLEAN : CallUpdateAccountTokens(x, e, r)
    \/ \E c \in Callers : CallAMGetAccessToken(c, x)
    \/ \E c \in Callers : CallEnsureAuthenticated(c, x, FALSE)
    \/ \E i \in 1..Len(exchanges) :
            /\ exchanges[i].kind = "account"
            /\ exchanges[i].account = x
            /\ \E o \in Outcomes : ProviderRespond(i, o, TRUE)

IdsOk ==
    /\ \A i \in 1..Len(accounts) : accounts[i].key = accounts[i].id
    /\ \A i \in 1..Len(accounts), j \in 1..Len(accounts) :
            i # j => (accounts[i].id # accounts[j].id /\ accounts[i].key # accounts[j].key)

\* the account stored under key k in the next state
AccountAfter(k) == accounts'[AccountAt(accounts', k)]

\* C19: every account of the registry is stored under a key equal to its
\* id and ids are pairwise distinct; addAccount returns an id that no
\* existing account has; no step changes the id of an account that stays in
\* the map; updateAccountTokens stores exactly the record it is given, and a
\* successful refresh stores a record made of the fields of the response
\* and expires_at only, in the map and in the token file.
C19_Identity ==
    [][/\ IdsOk
       /\ IdsOk'
       /\ \A c \in Callers :
             Invokes(c, "addAccount") =>
                 /\ \A i \in 1..Len(accounts) :
                         accounts[i].id # calls'[c].result.id
                         /\ accounts[i].key # calls'[c].result.id
                 /\ AccountAfter(calls'[c].result.id).id = calls'[c].result.id
       /\ \A k \in AccountIds :
             (AccountAt(accounts, k) # 0 /\ AccountAt(accounts', k) # 0) =>
                 AccountAfter(k).id = GetAccount(k).id
       /\ \A c \in Callers :
             (Invokes(c, "updateAccountTokens") /\ HasAccount(calls'[c].accountId)) =>
                 /\ calls'[c].result.value = TRUE
                 /\ AccountAfter(calls'[c].accountId).tokens = calls'[c].arg
                 /\ tokenFiles'[calls'[c].accountId] = calls'[c].arg
       /\ \A i \in 1..Len(exchanges), o \in Outcomes :
             (/\ ProviderRespond(i, o, TRUE)
              /\ o.kind = "response"
              /\ o.status = 200
              /\ o.body # Corrupt
              /\ Has(o.body, "access_token")
              /\ exchanges[i].kind = "account"
              /\ HasAccount(exchanges[i].account)) =>
                 LET t == AccountAfter(exchanges[i].account).tokens
                 IN  /\ DOMAIN t \subseteq (DOMAIN o.body \cup {"expires_at"})
                     /\ \A f \in DOMAIN t \cap (DOMAIN o.body \ {"expires_at"}) :
                             t[f] = o.body[f]
                     /\ t.access_token = o.body.access_token
                     /\ Has(t, "expires_at")
                     /\ tokenFiles'[exchanges[i].account] = t
     ]_vars

\* in a registry of two accounts a refresh has replaced a record that had
\* a refresh token by the record made of a response without one
C19_Witness ==
    \E c \in Callers :
        /\ DoneOp(c, "AM.getAccessToken")
        /\ calls[c].started # <<>>
        /\ calls[c].result.kind = "token"
        /\ ~Has(calls[c].result.src, "refresh_token")
        /\ HasAccount(calls[c].accountId)
        /\ GetAccount(calls[c].accountId).tokens = calls[c].result.src
        /\ tokenFiles[calls[c].accountId] = calls[c].result.src
        /\ Len(accounts) = 2
        /\ accounts[1].id # accounts[2].id

\* the answers of the provider that are not a success
Fails(o) ==
    \/ o.kind = "error"
    \/ o.kind = "response" /\ o.status # 200
    \/ o.kind = "response" /\ o.body = Corrupt
    \/ o.kind = "response" /\ o.body # Corrupt /\ ~Has(o.body, "access_token")

BelowGate == {"loadTokenCache", "getAccessToken", "getAccessTokenAsync", "AM.getAccessToken"}

\* C20: a call that ends by throwing is a call of ensureAuthenticated; the
\* accessors below it end with a value for every content of the stores; and
\* when the provider answers a refresh with a non-200 status, a body
\* without access_token, an unparseable body or a network error, the slot,
\* the token file and the registry are left as they were and the accessor
\* that awaits the refresh yields null.
C20_NullNotException ==
    [][/\ \A c \in Callers :
            (calls'[c].pc = "done" /\ calls'[c].result.kind = "throw") =>
                calls'[c].op = "ensureAuthenticated"
       /\ \A c \in Callers :
            (Starts(c) /\ calls'[c].op \in BelowGate /\ calls'[c].pc = "done") =>
                calls'[c].result.kind \in {"token", "null", "undefined", "record", "promise"}
       /\ \A i \in 1..Len(exchanges), o \in Outcomes :
            (ProviderRespond(i, o, TRUE) /\ Fails(o)) =>
                /\ outlookTokens' = outlookTokens
                /\ tokenFile' = tokenFile
                /\ UNCHANGED <<accounts, indexFile, tokenFiles>>
                /\ exchanges[i].waiter = Detached =>
                        (cachedTokens' = cachedTokens /\ calls' = calls)
                /\ (exchanges[i].waiter # Detached
                    /\ calls[exchanges[i].waiter].op \in BelowGate) =>
                        /\ calls'[exchanges[i].waiter].pc = "done"
                        /\ calls'[exchanges[i].waiter].result.kind = "null"
                        /\ cachedTokens' = cachedTokens
     ]_vars

\* getAccessTokenAsync has yielded null after the refresh it awaited has
\* failed; the token file still holds the record it was started from
C20_Witness ==
    \E c \in Callers :
        /\ DoneOp(c, "getAccessTokenAsync")
        /\ calls[c].result.kind = "null"
        /\ Len(calls[c].started) = 1
        /\ exchanges = <<>>
        /\ outlookTokens = Null
        /\ tokenFile = TokenRecord(0, 3, TRUE)
        /\ calls[c].started[1].refresh_token = tokenFile.refresh_token

\* a step in which the handler of caller c receives the outcome of its call
\* of ensureAuthenticated
Handles(c) ==
    /\ calls[c].pc = "done"
    /\ calls[c].op = "ensureAuthenticated"
    /\ calls'[c].pc = "done"
    /\ calls'[c].op = "handleListEmails"

\* C21: whenever ensureAuthenticated has thrown inside a tool handler -
\* because of forceNew, for an explicit account without a token, or with no
\* token on any path - the handler answers with the guidance to use the
\* authenticate tool, not with the error text built from the message.
C21_GuidanceOnFailure ==
    [][\A c \in Callers :
        (Handles(c) /\ calls[c].result.kind = "throw") =>
            /\ calls'[c].result.kind = "response"
            /\ calls'[c].result.text = TextGuidance
      ]_vars

\* an exchange for the same record as x is outstanding
Outstanding(kind, account) ==
    \E k \in 1..Len(exchanges) :
        exchanges[k].kind = kind /\ exchanges[k].account = account

PersistedExpired(id) ==
    /\ tokenFiles[id] # Null
    /\ Has(tokenFiles[id], "expires_at")
    /\ tokenFiles[id].expires_at # 0
    /\ now > tokenFiles[id].expires_at

\* C23: the load of the registry holds an account whose persisted token
\* document has expired with tokens = null and issues no exchange; a later
\* getAccessToken(accountId) or ensureAuthenticated(accountId) for such an
\* account sends the refresh exchange with the refresh_token of the
\* persisted document.
C23_RefreshAfterLoad ==
    [][/\ Restart =>
            /\ exchanges' = <<>>
            /\ \A k \in 1..Len(accounts') :
                  PersistedExpired(accounts'[k].key) => accounts'[k].tokens = Null
       /\ \A c \in Callers :
            (/\ Starts(c)
             /\ calls'[c].op \in {"AM.getAccessToken", "ensureAuthenticated"}
             /\ calls'[c].accountId # NoAccount
             /\ HasAccount(calls'[c].accountId)
             /\ GetAccount(calls'[c].accountId).tokens = Null
             /\ PersistedExpired(calls'[c].accountId)
             /\ Has(tokenFiles[calls'[c].accountId], "refresh_token")) =>
                /\ calls'[c].pc = "await"
                /\ calls'[c].started =
                      <<AccountExchange(calls'[c].accountId,
                            tokenFiles[calls'[c].accountId].refresh_token, c)>>
      ]_vars

\* memory and disk of the Account Registry agree
Converged ==
    /\ {indexFile[k].key : k \in 1..Len(indexFile)}
          = {accounts[k].key : k \in 1..Len(accounts)}
    /\ \A k \in 1..Len(accounts) :
          /\ \E j \in 1..Len(indexFile) : indexFile[j] = AccountInfo(accounts[k])
          /\ accounts[k].tokens # Null => tokenFiles[accounts[k].key] = accounts[k].tokens
          /\ accounts[k].tokens = Null => tokenFiles[accounts[k].key] = Null
    /\ \A id \in AccountIds : tokenFiles[id] # Null => HasAccount(id)

\* an operation has written the files of the registry
RegistryWritten == indexFile' # indexFile \/ tokenFiles' # tokenFiles

Dated(t) ==
    (t # Null /\ t # Corrupt /\ t # Unreadable /\ Has(t, "access_token")) =>
        Has(t, "expires_at")

\* C25: every token record held by the legacy store (module cache,
\* process-wide slot, file) or by a registry account carries an expires_at;
\* no operation, the OAuth callback included, stores a record without one.
C25_AlwaysDated ==
    /\ Dated(cachedTokens)
    /\ Dated(outlookTokens)
    /\ Dated(tokenFile)
    /\ \A k \in 1..Len(accounts) : Dated(accounts[k].tokens)
    /\ \A id \in AccountIds : Dated(tokenFiles[id])


\* completion time + expires_in, with 3600 s only when expires_in is absent
ExpiryOf(body) ==
    IF Has(body, "expires_in") THEN now + body.expires_in ELSE now + DefaultExpiresIn

\* C26: on a successful exchange both refreshers produce a record with
\* expires_at = completion time + expires_in for every expires_in the
\* provider returns, 0 included, and use 3600 seconds only when expires_in
\* is absent.
C26_ExpiresAt ==
    [][\A i \in 1..MaxExchanges, o \in Outcomes :
        (ProviderRespond(i, o, TRUE) /\ RefreshSucceeds(o)) =>
            /\ exchanges[i].waiter # Detached =>
                  calls'[exchanges[i].waiter].result.src.expires_at = ExpiryOf(o.body)
            /\ exchanges[i].kind = "legacy" =>
                  cachedTokens'.expires_at = ExpiryOf(o.body)
            /\ (exchanges[i].kind = "account" /\ HasAccount(exchanges[i].account)) =>
                  tokenFiles'[exchanges[i].account].expires_at = ExpiryOf(o.body)
      ]_vars


\* the call of d has ended in failure because the refresh exchange it was
\* waiting for, of the given kind for the given account, has failed
FailedRefresh(d, kind, account) ==
    /\ Done(d)
    /\ calls[d].result.kind \in {"null", "throw"}
    /\ Len(calls[d].started) = 1
    /\ calls[d].started[1].kind = kind
    /\ calls[d].started[1].account = account
    /\ calls[d].started[1].waiter = d
    /\ \A k \in 1..Len(exchanges) : exchanges[k] # calls[d].started[1]

\* C27: a failed refresh is retried on the next call. A refresh exchange
\* that fails leaves the stored record as it was; a call of getAccessToken
\* (of an account), getAccessTokenAsync or ensureAuthenticated that comes
\* after the failed one and selects the same record sends a new exchange
\* with the same refresh_token and waits for it, and when that exchange
\* succeeds the call returns the new token.
C27_RetryAfterFailure ==
    [][/\ \A i \in 1..MaxExchanges, o \in Outcomes :
            (ProviderRespond(i, o, TRUE) /\ ~RefreshSucceeds(o)) =>
                IF exchanges[i].kind = "account"
                THEN UNCHANGED registryVars
                ELSE UNCHANGED <<outlookTokens, tokenFile>>
       /\ \A c \in Invocations : \A d \in Invocations \ {c} :
            /\ (/\ Starts(c)
                /\ calls'[c].op \in {"AM.getAccessToken", "ensureAuthenticated"}
                /\ calls'[c].accountId # NoAccount
                /\ FailedRefresh(d, "account", calls'[c].accountId)) =>
                    /\ calls'[c].pc = "await"
                    /\ calls'[c].started =
                          <<AccountExchange(calls'[c].accountId,
                                            calls[d].started[1].refresh_token, c)>>
            /\ (/\ Starts(c)
                /\ calls'[c].op = "getAccessTokenAsync"
                /\ FailedRefresh(d, "legacy", NoAccount)) =>
                    /\ calls'[c].pc = "await"
                    /\ calls'[c].started =
                          <<LegacyExchange(calls[d].started[1].refresh_token, c)>>
            /\ \A i \in 1..MaxExchanges, o \in Outcomes :
                (/\ ProviderRespond(i, o, TRUE)
                 /\ RefreshSucceeds(o)
                 /\ exchanges[i].waiter = c
                 /\ FailedRefresh(d, exchanges[i].kind, exchanges[i].account)) =>
                    /\ calls'[c].pc = "done"
                    /\ calls'[c].result.kind = "token"
                    /\ calls'[c].result.token = o.body.access_token
                    /\ calls'[d] = calls[d]
      ]_vars


\* a token record that has expired and has no refresh token
Dead(t) ==
    /\ t # Null
    /\ Has(t, "access_token")
    /\ ~Has(t, "refresh_token")
    /\ now > ExpiresAtOr0(t)

\* the step is a re-authentication: add, remove or updateTokens
Explicit ==
    \/ \E upn \in Users, e \in Expiries, r \in BOOLEAN : CallAddAccount(upn, e, r)
    \/ \E id \in AccountIds : RemoveAccount(id)
    \/ \E id \in AccountIds, e \in Expiries, r \in BOOLEAN : CallUpdateAccountTokens(id, e, r)

\* the refresh requests that the call of c sends in this step
NewExchanges(c) ==
    IF calls'[c].pc = "idle" THEN {}
    ELSE {calls'[c].started[j] :
            j \in (IF calls[c].pc = "idle" THEN 1 ELSE Len(calls[c].started) + 1)
                    ..Len(calls'[c].started)}

C29_IndexWithoutTokens ==
    /\ \A k \in 1..Len(indexFile) :
          DOMAIN indexFile[k] \cap {"tokens", "access_token", "refresh_token"} = {}
    /\ \A k \in 1..Len(accounts) :
          (accounts[k].tokens # Null /\ Has(accounts[k].tokens, "access_token")) =>
              /\ tokenFiles[accounts[k].key] = accounts[k].tokens
              /\ \A id \in AccountIds \ {accounts[k].key} :
                    tokenFiles[id] # accounts[k].tokens

\* two accounts with tokens after a renewal of the first: each record in
\* its own token file, the index with both entries
C29_Witness ==
    /\ Len(accounts) = 2
    /\ Len(indexFile) = 2
    /\ \A k \in 1..2 :
          /\ accounts[k].tokens # Null
          /\ Has(accounts[k].tokens, "access_token")
          /\ tokenFiles[accounts[k].key] = accounts[k].tokens
          /\ indexFile[k] = AccountInfo(accounts[k])
    /\ accounts[2].lastUsed > accounts[2].createdAt


\* a file that is there and cannot be read or parsed
Damaged(f) == f = Unreadable \/ f = Corrupt

\* C30: when reading or parsing the account index fails during the load
\* of the registry, the registry ends up empty and the load ends normally;
\* a failure on one account's token document does not empty the registry:
\* every entry of the index is loaded, that account with null tokens, the
\* others with the tokens of their documents.
C30_LoadFailures ==
    [][Restart =>
        /\ \A c \in Callers : calls'[c] = Idle
        /\ IF indexFile = UnreadableIndex \/ indexFile = CorruptIndex
           THEN accounts' = <<>>
           ELSE /\ Len(accounts') = Len(indexFile)
                /\ \A k \in 1..Len(indexFile) :
                      /\ AccountInfo(accounts'[k]) = indexFile[k]
                      /\ Damaged(tokenFiles[indexFile[k].key]) =>
                            accounts'[k].tokens = Null
                      /\ (/\ tokenFiles[indexFile[k].key] # Null
                          /\ ~Damaged(tokenFiles[indexFile[k].key])
                          /\ ~PersistedExpired(indexFile[k].key)) =>
                            accounts'[k].tokens = tokenFiles[indexFile[k].key]
      ]_vars

\* the registry as a load leaves it when the token document of the first
\* account cannot be used: that account without tokens, the second with
\* the tokens of its document
C30_Witness ==
    /\ Len(accounts) = 2
    /\ Len(indexFile) = 2
    /\ Damaged(tokenFiles[accounts[1].key])
    /\ accounts[1].tokens = Null
    /\ accounts[2].tokens # Null
    /\ accounts[2].tokens = LoadAccountTokens(tokenFiles, accounts[2].key, now)
    /\ accounts = LoadAccounts(indexFile, tokenFiles, now)
    /\ \A c \in Callers : calls[c] = Idle


\* the refresh token a record keeps after a successful refresh answered
\* with body: the rotated one, or the previous one when the answer has none
RetainedRefreshToken(body, previous) ==
    IF Has(body, "refresh_token") THEN body.refresh_token ELSE previous

\* C31: a successful refresh of a record that has a refresh_token stores a
\* record that has one too: the rotated one when the provider returns one,
\* the previous one when the answer omits it.
C31_RefreshTokenRetained ==
    [][\A i \in 1..MaxExchanges, o \in Outcomes :
        (ProviderRespond(i, o, TRUE) /\ RefreshSucceeds(o)) =>
            /\ exchanges[i].kind = "legacy" =>
                  /\ Has(cachedTokens', "refresh_token")
                  /\ cachedTokens'.refresh_token
                        = RetainedRefreshToken(o.body, exchanges[i].refresh_token)
            /\ (/\ exchanges[i].kind = "account"
                /\ HasAccount(exchanges[i].account)
                /\ GetAccount(exchanges[i].account).tokens # Null
                /\ Has(GetAccount(exchanges[i].account).tokens, "refresh_token")) =>
                  /\ Has(tokenFiles'[exchanges[i].account], "refresh_token")
                  /\ tokenFiles'[exchanges[i].account].refresh_token
                        = RetainedRefreshToken(o.body, exchanges[i].refresh_token)
      ]_vars

\* the record exchange i was started from has been replaced since: what is
\* stored no longer carries the refresh token the exchange was sent with
Overtaken(i) ==
    /\ i \in 1..Len(exchanges)
    /\ \/ /\ exchanges[i].kind = "account"
          /\ HasAccount(exchanges[i].account)
          /\ GetAccount(exchanges[i].account).tokens # Null
          /\ \/ ~Has(GetAccount(exchanges[i].account).tokens, "refresh_token")
             \/ GetAccount(exchanges[i].account).tokens.refresh_token
                    # exchanges[i].refresh_token
       \/ /\ exchanges[i].kind = "legacy"
          /\ cachedTokens # Null
          /\ \/ ~Has(cachedTokens, "refresh_token")
             \/ cachedTokens.refresh_token # exchanges[i].refresh_token

\* C32: an exchange started before updateAccountTokens(accountId, t) (or
\* before saveTokenCache(t)) that completes after it never replaces t: the
\* stored record stays the one the explicit update wrote.
C32_NewerRecordKept ==
    [][\A i \in 1..MaxExchanges, o \in Outcomes :
        (ProviderRespond(i, o, TRUE) /\ Overtaken(i)) =>
            /\ exchanges[i].kind = "account" =>
                  PersistedAfter(exchanges[i].account,
                                 GetAccount(exchanges[i].account).tokens)
            /\ exchanges[i].kind = "legacy" =>
                  /\ cachedTokens' = cachedTokens
                  /\ tokenFile' = tokenFile
      ]_vars

\* C33: a refresh exchange that completes after its account has been
\* removed does not bring the account back, whatever its outcome: the
\* account stays absent from the map and from the index file, and no token
\* file for its id is written.
C33_NoResurrection ==
    [][\A i \in 1..MaxExchanges, o \in Outcomes :
        (/\ ProviderRespond(i, o, TRUE)
         /\ exchanges[i].kind = "account"
         /\ ~HasAccount(exchanges[i].account)) =>
            /\ AccountAt(accounts', exchanges[i].account) = 0
            /\ \A k \in 1..Len(indexFile') :
                    Has(indexFile'[k], "key") => indexFile'[k].key # exchanges[i].account
            /\ tokenFiles'[exchanges[i].account] = tokenFiles[exchanges[i].account]
            /\ tokenFiles'[exchanges[i].account] = Null
      ]_vars

\* getAccessToken(accountId) has ended with the token of a successful
\* exchange for an account that is in the registry no more
C33_Witness ==
    \E c \in Callers :
        /\ DoneOp(c, "AM.getAccessToken")
        /\ calls[c].started # <<>>
        /\ calls[c].result.kind = "token"
        /\ ~HasAccount(calls[c].accountId)
        /\ tokenFiles[calls[c].accountId] = Null
        /\ \A k \in 1..Len(indexFile) : indexFile[k].key # calls[c].accountId

\* some registry account holds a token that expires more than five minutes
\* from now
SomeAccountLive ==
    \E k \in 1..Len(accounts) :
        accounts[k].tokens # Null /\ Live(accounts[k].tokens)

\* C34: ensureAuthenticated() without accountId returns a token whenever a
\* registry account holds a token that expires more than five minutes from
\* now, also when the refresh of an earlier-inserted default account fails.
C34_LiveAccountServes ==
    [][\A c \in Callers :
        (/\ OwnStep(c)
         /\ calls'[c].op = "ensureAuthenticated"
         /\ calls'[c].accountId = NoAccount
         /\ ~calls'[c].forceNew
         /\ calls'[c].pc = "done"
         /\ SomeAccountLive) =>
            calls'[c].result.kind = "token"
      ]_vars

\* the token of the account at position k has expired
ExpiredAccount(k) ==
    /\ accounts[k].tokens # Null
    /\ ExpiresAtOr0(accounts[k].tokens) <= now

\* C35: without accountId, ensureAuthenticated sends a refresh exchange for
\* a registry account only when the token of that account has not expired
\* and lies inside the 5-minute window; an account whose token has expired
\* is neither selected nor refreshed, even with a refresh token: the call
\* goes on to the first account that is still valid, or to the legacy store.
C35_ExpiredSkipped ==
    [][\A c \in Callers :
        (/\ OwnStep(c)
         /\ calls'[c].op = "ensureAuthenticated"
         /\ calls'[c].accountId = NoAccount
         /\ ~calls'[c].forceNew) =>
            /\ \A x \in NewExchanges(c) :
                  x.kind = "account" =>
                      /\ Starts(c)
                      /\ HasAccount(x.account)
                      /\ GetAccount(x.account).tokens # Null
                      /\ GetAccount(x.account).tokens.expires_at > now
                      /\ now + FiveMinutes > GetAccount(x.account).tokens.expires_at
                      /\ x.refresh_token = GetAccount(x.account).tokens.refresh_token
            /\ \A k \in 1..Len(accounts) :
                  ExpiredAccount(k) =>
                      /\ \A x \in NewExchanges(c) :
                            ~(x.kind = "account" /\ x.account = accounts[k].key)
                      /\ (Starts(c) /\ calls'[c].pc = "done"
                            /\ calls'[c].result.kind = "token") =>
                            calls'[c].result.src # accounts[k].tokens
            /\ Starts(c) =>
                  IF \E k \in 1..Len(accounts) : HasValidTokens(accounts[k])
                  THEN /\ calls'[c].stage = "default"
                       /\ \A x \in NewExchanges(c) :
                             /\ x.kind = "account"
                             /\ HasValidTokens(GetAccount(x.account))
                             /\ \A j \in 1..(AccountAt(accounts, x.account) - 1) :
                                   ~HasValidTokens(accounts[j])
                  ELSE calls'[c].stage = "legacy"
      ]_vars

\* ensureAuthenticated() has passed over a first account whose token has
\* expired and can be renewed, and has sent an exchange for the second
\* account, whose token is inside the window
C35_Witness ==
    \E c \in Callers :
        /\ calls[c].pc = "await"
        /\ calls[c].op = "ensureAuthenticated"
        /\ calls[c].accountId = NoAccount
        /\ calls[c].stage = "default"
        /\ Len(accounts) = 2
        /\ ExpiredAccount(1)
        /\ Has(accounts[1].tokens, "refresh_token")
        /\ calls[c].started = <<AccountExchange(accounts[2].key,
                                                accounts[2].tokens.refresh_token, c)>>
        /\ exchanges = calls[c].started
        /\ accounts[2].tokens.expires_at > now

\* the index file on disk has an entry for id
InIndexFile(id) ==
    \E k \in 1..Len(indexFile) : Has(indexFile[k], "key") /\ indexFile[k].key = id

\* C36: no account leaves the index file without removeAccount: through
\* loads (also loads whose read of the index fails), adds, updates and
\* refreshes, every id the index file had when the process started is still
\* in it.
C36_IndexKept ==
    \A k \in 1..Len(StoredIndex) : InIndexFile(StoredIndex[k].key)

\* the call of c is an ensureAuthenticated that waits for an exchange
Awaits(c) == calls[c].pc = "await" /\ calls[c].op = "ensureAuthenticated"

\* C37: when the identity provider answers or errors on every exchange, a
\* call of ensureAuthenticated that waits for an exchange ends by returning
\* a token or throwing; and it has no timeout of its own: it moves on only
\* in the step in which the exchange it awaits is answered.
C37_Terminates ==
    /\ \A c \in Callers :
            Awaits(c) ~> (DoneOp(c, "ensureAuthenticated")
                            /\ calls[c].result.kind \in {"token", "throw"})
    /\ [][\A c \in Callers : (Awaits(c) /\ calls'[c] # calls[c]) => Answered(c)]_vars

\* ensureAuthenticated() has ended after two exchanges in a row: the one of
\* the default account, which failed, and the one of the legacy store
C37_Witness ==
    \E c \in Callers :
        /\ DoneOp(c, "ensureAuthenticated")
        /\ Len(calls[c].started) = 2
        /\ calls[c].started[1].kind = "account"
        /\ calls[c].started[2].kind = "legacy"
        /\ exchanges = <<>>

\* every session id in the map belongs to a transport that has been
\* initialized with this id and has not been closed, and no two transports
\* have ever been given the same id
SessionMapOk ==
    /\ \A sid \in SessionIds :
          transports[sid] # NoTransport =>
              /\ transports[sid] \in 1..Len(created)
              /\ created[transports[sid]].sessionId = sid
              /\ ~created[transports[sid]].closed
    /\ \A t, u \in 1..Len(created) :
          (created[t].sessionId # NoSession /\ created[t].sessionId = created[u].sessionId)
              => t = u

====
